---- MODULE Spec2Model ----
(***************************************************************************)
(* Model of the aads-aso "popscore" / "recommend" commands                  *)
(* (cmd/aads-aso/cm_keywords.go, adam_id.go, cm_cookie refresh helper).     *)
(*                                                                         *)
(* Texts (Go strings) are sequences of tokens.  A token is an atomic chunk  *)
(* of characters; every phrase the program searches for is made of whole    *)
(* tokens, so strings.Contains is sub-sequence-of-tokens search,            *)
(* strings.ToLower maps token by token, and strings.TrimSpace strips the    *)
(* blank tokens at both ends.                                               *)
(***************************************************************************)
EXTENDS Integers, Sequences, FiniteSets, TLC

(***************************************************************************)
(* Bounds of the model.                                                    *)
(***************************************************************************)
MaxCountries == 2
MaxItems == 2

(***************************************************************************)
(* strings package                                                         *)
(***************************************************************************)
Q == "\""
SP == " "
NL == "\n"

IsSpace(t) == t = SP \/ t = NL

ToLowerTok(t) ==
  CASE t = "AUTH" -> "auth"
    [] t = "REFRESH" -> "refresh"
    [] t = "_REQUIRED" -> "_required"
    [] t = "Session expired" -> "session expired"
    [] t = "User is not logged in" -> "user is not logged in"
    [] t = "NO_USER_OWNED_APPS_FOUND_CODE" -> "no_user_owned_apps_found_code"
    [] t = "No_User_Owned_Apps_Found_Code" -> "no_user_owned_apps_found_code"
    [] t = "internalErrorCode" -> "internalerrorcode"
    [] t = "errorCode" -> "errorcode"
    [] t = "errorMsg" -> "errormsg"
    [] t = "messageCode" -> "messagecode"
    [] t = "matchType" -> "matchtype"
    [] t = "cm endpoint HTTP " -> "cm endpoint http "
    [] t = "SUCCESS" -> "success"
    [] t = "Success" -> "success"
    [] t = "ERROR" -> "error"
    [] t = "Plant App" -> "plant app"
    [] t = "EXACT" -> "exact"
    [] t = "<html>Forbidden</html>" -> "<html>forbidden</html>"
    [] t = "COM.X" -> "com.x"
    [] t = "A" -> "a"
    [] t = "B" -> "b"
    [] t = "C" -> "c"
    [] t = "Cookie:" -> "cookie:"
    [] t = "COOKIE:" -> "cookie:"
    [] t = "X-XSRF-TOKEN-CM" -> "x-xsrf-token-cm"
    [] t = "X-Xsrf-Token-Cm" -> "x-xsrf-token-cm"
    [] t = "Cookie" -> "cookie"
    [] t = "COOKIE" -> "cookie"
    [] t = "Accept" -> "accept"
    [] t = "XSRF-TOKEN-CM" -> "xsrf-token-cm"
    [] OTHER -> t

ToLower(s) == [i \in 1..Len(s) |-> ToLowerTok(s[i])]

Contains(s, sub) ==
  \E i \in 0..(Len(s) - Len(sub)) : SubSeq(s, i + 1, i + Len(sub)) = sub

EqualFold(a, b) == ToLower(a) = ToLower(b)

RECURSIVE TrimLeft(_)
TrimLeft(s) == IF s # <<>> /\ IsSpace(Head(s)) THEN TrimLeft(Tail(s)) ELSE s

RECURSIVE TrimRight(_)
TrimRight(s) ==
  IF s # <<>> /\ IsSpace(s[Len(s)]) THEN TrimRight(SubSeq(s, 1, Len(s) - 1)) ELSE s

TrimSpace(s) == TrimRight(TrimLeft(s))

(***************************************************************************)
(* Upstream response bodies.  A body is JSON text; the model keeps the     *)
(* decoded structure of the text together with the way it is laid out      *)
(* (blank after a colon, blanks around the text), and Raw renders the      *)
(* text the program sees.                                                  *)
(*   kind       "object" a JSON object, "null" the JSON value null,        *)
(*              "text" anything json.Unmarshal rejects (HTML, empty, a     *)
(*              JSON array or string)                                      *)
(*   statusKind "absent", "string" or "other" (a non-string JSON value)    *)
(*   dataKind   "absent", "list" or "other" (a non-array JSON value)       *)
(***************************************************************************)
JStr(t) == <<Q>> \o t \o <<Q>>

JKey(k, spaced) == <<Q, k, Q, ":">> \o (IF spaced THEN <<SP>> ELSE <<>>)

RECURSIVE JoinComma(_)
JoinComma(parts) ==
  IF parts = <<>> THEN <<>>
  ELSE IF Len(parts) = 1 THEN parts[1]
  ELSE parts[1] \o <<",">> \o JoinComma(Tail(parts))

NonEmptyPart(p) == p # <<>>

RawItem(it, spaced) ==
  <<"{">> \o JKey("id", spaced) \o <<ToString(it.id)>> \o <<",">>
    \o JKey("name", spaced) \o JStr(it.name) \o <<",">>
    \o JKey("popularity", spaced) \o <<ToString(it.popularity)>> \o <<",">>
    \o JKey("matchType", spaced) \o JStr(it.matchType) \o <<",">>
    \o JKey("adamId", spaced) \o <<ToString(it.adamId)>> \o <<"}">>

RawSubError(e, spaced) ==
  <<"{">> \o JKey("messageCode", spaced) \o JStr(e.messageCode) \o <<",">>
    \o JKey("message", spaced) \o JStr(e.message) \o <<",">>
    \o JKey("field", spaced) \o JStr(e.field) \o <<"}">>

RawObject(b) ==
  LET statusPart ==
        CASE b.statusKind = "string" -> JKey("status", b.spaced) \o JStr(b.status)
          [] b.statusKind = "other" -> JKey("status", b.spaced) \o <<"7">>
          [] OTHER -> <<>>
      dataPart ==
        CASE b.dataKind = "list" ->
               JKey("data", b.spaced) \o <<"[">>
                 \o JoinComma([i \in 1..Len(b.data) |-> RawItem(b.data[i], b.spaced)])
                 \o <<"]">>
          [] b.dataKind = "other" -> JKey("data", b.spaced) \o JStr(<<"oops">>)
          [] OTHER -> <<>>
      codePart ==
        IF b.errorCode # <<>> THEN JKey("errorCode", b.spaced) \o JStr(b.errorCode) ELSE <<>>
      icodePart ==
        IF b.internalErrorCode # <<>>
        THEN JKey("internalErrorCode", b.spaced) \o JStr(b.internalErrorCode) ELSE <<>>
      msgPart ==
        IF b.errorMsg # <<>> THEN JKey("errorMsg", b.spaced) \o JStr(b.errorMsg) ELSE <<>>
      errorPart ==
        IF b.errors # <<>>
        THEN JKey("error", b.spaced) \o <<"{">> \o JKey("errors", b.spaced) \o <<"[">>
               \o JoinComma([i \in 1..Len(b.errors) |-> RawSubError(b.errors[i], b.spaced)])
               \o <<"]", "}">>
        ELSE <<>>
  IN <<"{">>
       \o JoinComma(SelectSeq(<<statusPart, dataPart, codePart, icodePart, msgPart, errorPart>>,
                              NonEmptyPart))
       \o <<"}">>

Raw(b) ==
  LET core == CASE b.kind = "object" -> RawObject(b)
                [] b.kind = "null" -> <<"null">>
                [] OTHER -> b.text
  IN IF b.pad THEN <<SP>> \o core \o <<SP>> ELSE core

(***************************************************************************)
(* encoding/json: json.Unmarshal of a body into each of the response       *)
(* structs.  Unknown keys are ignored, a missing key leaves the zero       *)
(* value, the JSON value null decodes without error and changes nothing,   *)
(* and a value of the wrong JSON type for a field is an error.             *)
(***************************************************************************)
KeywordItem(it) ==
  [ID |-> it.id, Name |-> it.name, Popularity |-> it.popularity, MatchType |-> it.matchType]

CampaignItem(it) == [ID |-> it.id, Name |-> it.name, AdamID |-> it.adamId]

UnmarshalStatusData(b) ==
  IF b.kind = "null"
  THEN [err |-> FALSE, Status |-> <<>>, Data |-> <<>>]
  ELSE IF b.kind = "object" /\ b.statusKind # "other" /\ b.dataKind # "other"
  THEN [err |-> FALSE,
        Status |-> IF b.statusKind = "string" THEN b.status ELSE <<>>,
        Data |-> IF b.dataKind = "list" THEN b.data ELSE <<>>]
  ELSE [err |-> TRUE, Status |-> <<>>, Data |-> <<>>]

UnmarshalSuccessResponse(b) ==
  LET r == UnmarshalStatusData(b)
  IN [err |-> r.err, Status |-> r.Status,
      Data |-> [i \in 1..Len(r.Data) |-> KeywordItem(r.Data[i])]]

UnmarshalCampaignFindResponse(b) ==
  LET r == UnmarshalStatusData(b)
  IN [err |-> r.err, Status |-> r.Status,
      Data |-> [i \in 1..Len(r.Data) |-> CampaignItem(r.Data[i])]]

UnmarshalErrorResponse(b) ==
  IF b.kind = "null"
  THEN [err |-> FALSE, ErrorMsg |-> <<>>, ErrorCode |-> <<>>, InternalErrorCode |-> <<>>]
  ELSE IF b.kind = "object"
  THEN [err |-> FALSE, ErrorMsg |-> b.errorMsg, ErrorCode |-> b.errorCode,
        InternalErrorCode |-> b.internalErrorCode]
  ELSE [err |-> TRUE, ErrorMsg |-> <<>>, ErrorCode |-> <<>>, InternalErrorCode |-> <<>>]

UnmarshalErrorNestedResponse(b) ==
  IF b.kind = "null"
  THEN [err |-> FALSE, Status |-> <<>>, Errors |-> <<>>]
  ELSE IF b.kind = "object" /\ b.statusKind # "other"
  THEN [err |-> FALSE,
        Status |-> IF b.statusKind = "string" THEN b.status ELSE <<>>,
        Errors |-> b.errors]
  ELSE [err |-> TRUE, Status |-> <<>>, Errors |-> <<>>]

(***************************************************************************)
(* Errors.  A Go error is modelled by its Error() text; NoErr is nil.      *)
(***************************************************************************)
NoErr == <<>>

FlatErrorText(endpoint, er) ==
  <<"cm ", endpoint, " error (">> \o TrimSpace(er.ErrorCode) \o <<"/">>
    \o TrimSpace(er.InternalErrorCode) \o <<"): ">> \o TrimSpace(er.ErrorMsg)

NestedErrorText(endpoint, first) ==
  <<"cm ", endpoint, " error (">> \o TrimSpace(first.messageCode) \o <<"): ">>
    \o TrimSpace(first.message)

\* Variant: the unrecognized body is not echoed.
UnexpectedErrorText_NoEcho(endpoint, b) ==
  <<"cm ", endpoint, ": unexpected response: ">>

UnexpectedErrorText(endpoint, b) ==
  <<"cm ", endpoint, ": unexpected response: ">> \o TrimSpace(Raw(b))

\* Variant: the error is built from the last sub-error.
ParseErrorBranches_LastSubError(endpoint, b) ==
  LET er == UnmarshalErrorResponse(b)
      n == UnmarshalErrorNestedResponse(b)
  IN IF ~er.err /\ (er.ErrorMsg # <<>> \/ er.ErrorCode # <<>> \/ er.InternalErrorCode # <<>>)
     THEN FlatErrorText(endpoint, er)
     ELSE IF ~n.err /\ Len(n.Errors) > 0
     THEN NestedErrorText(endpoint, n.Errors[Len(n.Errors)])
     ELSE UnexpectedErrorText(endpoint, b)

\* The second and third attempts of parseCMKeywordData and parseCMCampaignData
\* (cm_keywords.go:568-579, 588-599).
ParseErrorBranches(endpoint, b) ==
  LET er == UnmarshalErrorResponse(b)
      n == UnmarshalErrorNestedResponse(b)
  IN IF ~er.err /\ (er.ErrorMsg # <<>> \/ er.ErrorCode # <<>> \/ er.InternalErrorCode # <<>>)
     THEN FlatErrorText(endpoint, er)
     ELSE IF ~n.err /\ Len(n.Errors) > 0
     THEN NestedErrorText(endpoint, n.Errors[1])
     ELSE UnexpectedErrorText(endpoint, b)

\* Variant: the status is compared with == instead of strings.EqualFold.
parseCMKeywordData_CaseSensitive(endpoint, b) ==
  LET ok == UnmarshalSuccessResponse(b)
  IN IF ~ok.err /\ (ok.Status = <<>> \/ ok.Status = <<"success">>)
     THEN [items |-> ok.Data, err |-> NoErr]
     ELSE [items |-> <<>>, err |-> ParseErrorBranches(endpoint, b)]

parseCMKeywordData(endpoint, b) ==
  LET ok == UnmarshalSuccessResponse(b)
  IN IF ~ok.err /\ (ok.Status = <<>> \/ EqualFold(ok.Status, <<"success">>))
     THEN [items |-> ok.Data, err |-> NoErr]
     ELSE [items |-> <<>>, err |-> ParseErrorBranches(endpoint, b)]

parseCMCampaignData(endpoint, b) ==
  LET ok == UnmarshalCampaignFindResponse(b)
  IN IF ~ok.err /\ (ok.Status = <<>> \/ EqualFold(ok.Status, <<"success">>))
     THEN [items |-> ok.Data, err |-> NoErr]
     ELSE [items |-> <<>>, err |-> ParseErrorBranches(endpoint, b)]

(***************************************************************************)
(* One HTTP exchange.  A response is a transport failure (neterr), or an   *)
(* HTTP status with a body.                                                *)
(***************************************************************************)
TransportErrorText == <<"Post ", "https://app-ads.apple.com", ": context deadline exceeded">>

HTTPErrorText(r) ==
  <<"cm endpoint HTTP ", ToString(r.status), ": ">> \o TrimSpace(Raw(r.body))

cmPostJSON(r) ==
  IF r.neterr THEN [ok |-> FALSE, err |-> TransportErrorText]
  ELSE IF r.status < 200 \/ r.status >= 300 THEN [ok |-> FALSE, err |-> HTTPErrorText(r)]
  ELSE [ok |-> TRUE, err |-> NoErr]

cmGetJSON(r) ==
  IF r.neterr THEN [ok |-> FALSE, err |-> TransportErrorText]
  ELSE IF r.status < 200 \/ r.status >= 300 THEN [ok |-> FALSE, err |-> HTTPErrorText(r)]
  ELSE [ok |-> TRUE, err |-> NoErr]

cmKeywordCall(endpoint, r) ==
  LET p == cmPostJSON(r)
  IN IF ~p.ok THEN [items |-> <<>>, err |-> p.err] ELSE parseCMKeywordData(endpoint, r.body)

cmCampaignsFind(r) ==
  LET p == cmGetJSON(r)
  IN IF ~p.ok THEN [items |-> <<>>, err |-> p.err]
     ELSE parseCMCampaignData("campaigns/find", r.body)

(***************************************************************************)
(* Classification of an error by its text.                                 *)
(***************************************************************************)
NotOwnedSentinel == <<"no_user_owned_apps_found_code">>
RefreshCodeNeedle == <<"internalerrorcode", Q, ":", Q, "refresh">>
NotLoggedInNeedle == <<"user is not logged in">>
Http403Needle == <<"cm endpoint http ", "403">>

\* Variant: without the early return on the not-owned sentinel.
isCMRefreshError_NoSentinelGuard(err) ==
  IF err = NoErr THEN FALSE
  ELSE LET s == ToLower(err)
       IN \/ Contains(s, RefreshCodeNeedle)
          \/ Contains(s, NotLoggedInNeedle)
          \/ (Contains(s, Http403Needle) /\ ~Contains(s, NotOwnedSentinel))

\* Variant: without the HTTP 403 rule.
isCMRefreshError_No403(err) ==
  IF err = NoErr THEN FALSE
  ELSE LET s == ToLower(err)
       IN IF Contains(s, NotOwnedSentinel) THEN FALSE
          ELSE \/ Contains(s, RefreshCodeNeedle)
               \/ Contains(s, NotLoggedInNeedle)

isCMRefreshError(err) ==
  IF err = NoErr THEN FALSE
  ELSE LET s == ToLower(err)
       IN IF Contains(s, NotOwnedSentinel) THEN FALSE
          ELSE \/ Contains(s, RefreshCodeNeedle)
               \/ Contains(s, NotLoggedInNeedle)
               \/ (Contains(s, Http403Needle) /\ ~Contains(s, NotOwnedSentinel))

isCMNoUserOwnedAppsError(err) ==
  IF err = NoErr THEN FALSE
  ELSE Contains(ToLower(err), NotOwnedSentinel)

\* The FailureClassification of a call outcome, in the order the command
\* tests it (cm_keywords.go:133 then :141).
Classify(err) ==
  CASE err = NoErr -> "Success"
    [] isCMRefreshError(err) -> "CredentialExpired"
    [] isCMNoUserOwnedAppsError(err) -> "TargetNotOwned"
    [] OTHER -> "OtherError"

(***************************************************************************)
(* Data of the model: items, sub-errors, bodies, responses.                *)
(***************************************************************************)
JItem(id, name, pop, mt, adam) ==
  [id |-> id, name |-> name, popularity |-> pop, matchType |-> mt, adamId |-> adam]

KwPlant == JItem(1, <<"Plant App">>, 42, <<"EXACT">>, 0)
KwB == JItem(2, <<"B">>, 30, <<>>, 0)
KwC == JItem(3, <<"C">>, 20, <<SP>>, 0)
KwA == JItem(4, <<"A">>, 5, <<"BROAD">>, 0)
KwPlantAgain == JItem(5, <<SP, "plant app">>, 7, <<SP>>, 0)
KwLowerB == JItem(6, <<"b">>, 30, <<"EXACT">>, 0)
KwBlank == JItem(7, <<SP>>, 90, <<>>, 0)
CampNone == JItem(10, <<"Draft">>, 0, <<>>, 0)
CampOwned == JItem(11, <<SP, "Camp A">>, 0, <<>>, 111)
CampOther == JItem(12, <<"Camp B">>, 0, <<>>, 999)

SubError(code, msg, field) == [messageCode |-> code, message |-> msg, field |-> field]

ErrInvalid == SubError(<<"INVALID_INPUT">>, <<"boom">>, <<"terms">>)
ErrNotOwned == SubError(<<"NO_USER_OWNED_APPS_FOUND_CODE">>, <<"No owned apps">>, <<>>)
ErrLogin == SubError(<<"UNAUTHORIZED">>, <<"User is not logged in">>, <<>>)
ErrPadded == SubError(<<SP, "RATE_LIMIT">>, <<"slow down", SP>>, <<"User is not logged in">>)

MkBody(kind, sk, st, dk, d, code, icode, msg, es, spaced, pad, text) ==
  [kind |-> kind, statusKind |-> sk, status |-> st, dataKind |-> dk, data |-> d,
   errorCode |-> code, internalErrorCode |-> icode, errorMsg |-> msg, errors |-> es,
   spaced |-> spaced, pad |-> pad, text |-> text]

TextBody(text, pad) ==
  MkBody("text", "absent", <<>>, "absent", <<>>, <<>>, <<>>, <<>>, <<>>, FALSE, pad, text)

NullBody == MkBody("null", "absent", <<>>, "absent", <<>>, <<>>, <<>>, <<>>, <<>>, FALSE, FALSE, <<>>)

SuccessBody(sk, st, d) ==
  MkBody("object", sk, st, "list", d, <<>>, <<>>, <<>>, <<>>, FALSE, FALSE, <<>>)

FlatBody(sk, st, code, icode, msg, spaced) ==
  MkBody("object", sk, st, "absent", <<>>, code, icode, msg, <<>>, spaced, FALSE, <<>>)

NestedBody(sk, st, es) ==
  MkBody("object", sk, st, "absent", <<>>, <<>>, <<>>, <<>>, es, FALSE, FALSE, <<>>)

Resp(status, body) == [neterr |-> FALSE, status |-> status, body |-> body]

NetErrResp == [neterr |-> TRUE, status |-> 0, body |-> NullBody]

\* {errorCode:"AUTH", internalErrorCode:"refresh_required", errorMsg:"..."}
RefreshEnvelope(sk, st, spaced) ==
  FlatBody(sk, st, <<"AUTH">>, <<"refresh", "_required">>, <<"Session expired">>, spaced)

(***************************************************************************)
(* The response bodies the classifier is checked on.                       *)
(***************************************************************************)
SeqsUpTo(S, n) == UNION {[1..k -> S] : k \in 0..n}

StatusChoices ==
  {<<"absent", <<>>>>, <<"string", <<>>>>, <<"string", <<"success">>>>,
   <<"string", <<"SUCCESS">>>>, <<"string", <<"Success">>>>, <<"string", <<"error">>>>,
   <<"other", <<>>>>}

DataChoices ==
  {<<"absent", <<>>>>, <<"other", <<>>>>}
    \cup {<<"list", d>> : d \in SeqsUpTo({KwPlant, KwB}, MaxItems)}

CodeChoices == {<<>>, <<"AUTH">>}
InternalCodeChoices == {<<>>, <<"refresh", "_required">>}
MsgChoices ==
  {<<>>, <<"Session expired">>, <<"User is not logged in">>,
   <<"NO_USER_OWNED_APPS_FOUND_CODE">>}
ErrorsChoices ==
  {<<>>, <<ErrInvalid>>, <<ErrNotOwned, ErrInvalid>>, <<ErrLogin, ErrNotOwned>>,
   <<ErrPadded, ErrLogin>>}

RawTexts ==
  {<<>>, <<"<html>Forbidden</html>">>, <<"[", "]">>,
   <<"<html>", "User is not logged in", "</html>">>,
   <<"{", Q, "internalErrorCode", Q, ":", Q, "REFRESH", "_REQUIRED", Q>>,
   <<"No_User_Owned_Apps_Found_Code">>}

\* Objects with a data list (with or without an error code beside it), and
\* objects without one carrying every combination of the error fields.
ObjectBodies ==
  {MkBody("object", sc[1], sc[2], dc[1], dc[2], code, <<>>, <<>>, <<>>, spaced, FALSE, <<>>) :
     sc \in StatusChoices, dc \in DataChoices, code \in CodeChoices, spaced \in BOOLEAN}
  \cup
  {MkBody("object", sc[1], sc[2], dk, <<>>, code, icode, msg, es, spaced, FALSE, <<>>) :
     sc \in StatusChoices, dk \in {"absent", "other"}, code \in CodeChoices,
     icode \in InternalCodeChoices, msg \in MsgChoices, es \in ErrorsChoices,
     spaced \in BOOLEAN}

ClassifyBodies ==
  ObjectBodies \cup {NullBody} \cup {TextBody(t, pad) : t \in RawTexts, pad \in BOOLEAN}

HTTPStatuses == {200, 204, 401, 403, 500}

ClassifyResponses ==
  {Resp(st, b) : st \in HTTPStatuses, b \in ClassifyBodies} \cup {NetErrResp}

(***************************************************************************)
(* Credential Store: getCookieFlag, and the Credential Refresher.          *)
(***************************************************************************)
FileMissing == [state |-> "missing", content |-> <<>>]
FileUnreadable == [state |-> "unreadable", content |-> <<>>]
FileWith(c) == [state |-> "ok", content |-> c]

HasPrefixFold(c, tok) == c # <<>> /\ ToLowerTok(c[1]) = tok

\* Variant: the file is read first and wins over the explicit value.
getCookieFlag_FileFirst(flagCookie, fileFlagBlank, file, auto) ==
  LET c1 == TrimSpace(flagCookie)
      reads == ~fileFlagBlank
      c2 == IF reads /\ file.state = "ok" /\ TrimSpace(file.content) # <<>>
            THEN TrimSpace(file.content) ELSE c1
      c3 == IF HasPrefixFold(c2, "cookie:") THEN TrimSpace(Tail(c2)) ELSE c2
  IN IF reads /\ file.state = "unreadable"
     THEN [cookie |-> <<>>, err |-> <<"open cookie file: permission denied">>,
           refresh |-> FALSE, read |-> TRUE]
     ELSE IF c3 = <<>>
     THEN IF ~auto
          THEN [cookie |-> <<>>,
                err |-> <<"--cookie (or --cookie-file) is required for this command">>,
                refresh |-> FALSE, read |-> reads]
          ELSE [cookie |-> <<>>, err |-> NoErr, refresh |-> TRUE, read |-> reads]
     ELSE [cookie |-> c3, err |-> NoErr, refresh |-> FALSE, read |-> reads]

\* Variant: a missing credential starts the refresher whatever --auto-cookie.
getCookieFlag_NoAutoTest(flagCookie, fileFlagBlank, file, auto) ==
  LET c1 == TrimSpace(flagCookie)
      reads == c1 = <<>> /\ ~fileFlagBlank
      c2 == IF reads /\ file.state = "ok" THEN TrimSpace(file.content) ELSE c1
      c3 == IF HasPrefixFold(c2, "cookie:") THEN TrimSpace(Tail(c2)) ELSE c2
  IN IF reads /\ file.state = "unreadable"
     THEN [cookie |-> <<>>, err |-> <<"open cookie file: permission denied">>,
           refresh |-> FALSE, read |-> TRUE]
     ELSE IF c3 = <<>>
     THEN IF FALSE
          THEN [cookie |-> <<>>,
                err |-> <<"--cookie (or --cookie-file) is required for this command">>,
                refresh |-> FALSE, read |-> reads]
          ELSE [cookie |-> <<>>, err |-> NoErr, refresh |-> TRUE, read |-> reads]
     ELSE [cookie |-> c3, err |-> NoErr, refresh |-> FALSE, read |-> reads]

\* The part of getCookieFlag before the refresh: which cookie is chosen, or
\* which error is returned.  fileFlagBlank: --cookie-file is blank.
getCookieFlag(flagCookie, fileFlagBlank, file, auto) ==
  LET c1 == TrimSpace(flagCookie)
      reads == c1 = <<>> /\ ~fileFlagBlank
      c2 == IF reads /\ file.state = "ok" THEN TrimSpace(file.content) ELSE c1
      c3 == IF HasPrefixFold(c2, "cookie:") THEN TrimSpace(Tail(c2)) ELSE c2
  IN IF reads /\ file.state = "unreadable"
     THEN [cookie |-> <<>>, err |-> <<"open cookie file: permission denied">>,
           refresh |-> FALSE, read |-> TRUE]
     ELSE IF c3 = <<>>
     THEN IF ~auto
          THEN [cookie |-> <<>>,
                err |-> <<"--cookie (or --cookie-file) is required for this command">>,
                refresh |-> FALSE, read |-> reads]
          ELSE [cookie |-> <<>>, err |-> NoErr, refresh |-> TRUE, read |-> reads]
     ELSE [cookie |-> c3, err |-> NoErr, refresh |-> FALSE, read |-> reads]

\* What one run of the interactive refresher meets: the browser fails to
\* open, the cookie export fails, the text exported, the file write fails.
RefreshRun(openErr, extractErr, exported, writeErr) ==
  [openErr |-> openErr, extractErr |-> extractErr, exported |-> exported, writeErr |-> writeErr]

FreshCookie(k) == <<"sid=r", ToString(k)>>

RefreshRuns(k) ==
  {RefreshRun(TRUE, FALSE, <<>>, FALSE),
   RefreshRun(FALSE, TRUE, <<>>, FALSE),
   RefreshRun(FALSE, FALSE, <<SP>>, FALSE),
   RefreshRun(FALSE, FALSE, FreshCookie(k), TRUE),
   RefreshRun(FALSE, FALSE, <<SP>> \o FreshCookie(k) \o <<NL>>, FALSE)}

\* Variant: the exported cookie is not tested for being empty.
refreshCMCookieInteractively_NoEmptyTest(run, file) ==
  LET cookieHeader == TrimSpace(run.exported)
  IN IF run.openErr
     THEN [cookie |-> <<>>, err |-> <<"playwright-cli (npx) failed: ", "open">>, file |-> file]
     ELSE IF run.extractErr
     THEN [cookie |-> <<>>, err |-> <<"playwright-cli (npx) failed: ", "run-code">>, file |-> file]
     ELSE IF run.writeErr
     THEN [cookie |-> <<>>, err |-> <<"write cookie file: ", "permission denied">>, file |-> file]
     ELSE [cookie |-> cookieHeader, err |-> NoErr, file |-> FileWith(cookieHeader \o <<NL>>)]

\* Variant: the file is written before the exported cookie is tested.
refreshCMCookieInteractively_WriteBeforeTest(run, file) ==
  LET cookieHeader == TrimSpace(run.exported)
  IN IF run.openErr
     THEN [cookie |-> <<>>, err |-> <<"playwright-cli (npx) failed: ", "open">>, file |-> file]
     ELSE IF run.extractErr
     THEN [cookie |-> <<>>, err |-> <<"playwright-cli (npx) failed: ", "run-code">>, file |-> file]
     ELSE IF cookieHeader = <<>>
     THEN [cookie |-> <<>>,
           err |-> <<"exported cookie is empty; are you logged in to app-ads.apple.com in the opened browser?">>,
           file |-> FileWith(cookieHeader \o <<NL>>)]
     ELSE IF run.writeErr
     THEN [cookie |-> <<>>, err |-> <<"write cookie file: ", "permission denied">>, file |-> file]
     ELSE [cookie |-> cookieHeader, err |-> NoErr, file |-> FileWith(cookieHeader \o <<NL>>)]

\* One run of the refresher as the command sees it, part_000:115-205: the
\* browser is opened, the cookie exported and tested, the file written.
refreshCMCookieInteractively(run, file) ==
  LET cookieHeader == TrimSpace(run.exported)
  IN IF run.openErr
     THEN [cookie |-> <<>>, err |-> <<"playwright-cli (npx) failed: ", "open">>, file |-> file]
     ELSE IF run.extractErr
     THEN [cookie |-> <<>>, err |-> <<"playwright-cli (npx) failed: ", "run-code">>, file |-> file]
     ELSE IF cookieHeader = <<>>
     THEN [cookie |-> <<>>,
           err |-> <<"exported cookie is empty; are you logged in to app-ads.apple.com in the opened browser?">>,
           file |-> file]
     ELSE IF run.writeErr
     THEN [cookie |-> <<>>, err |-> <<"write cookie file: ", "permission denied">>, file |-> file]
     ELSE [cookie |-> cookieHeader, err |-> NoErr, file |-> FileWith(cookieHeader \o <<NL>>)]

(***************************************************************************)
(* getExtraHeaders: each raw header is the text of one --header flag.      *)
(***************************************************************************)
RECURSIVE IndexOf(_, _)
\* strings.IndexByte: 0-based position of the first tok, -1 when absent.
IndexOf(s, tok) ==
  IF s = <<>> THEN -1
  ELSE IF Head(s) = tok THEN 0
  ELSE LET r == IndexOf(Tail(s), tok) IN IF r < 0 THEN -1 ELSE r + 1

RECURSIVE getExtraHeadersFrom(_, _)
getExtraHeadersFrom(raw, acc) ==
  IF raw = <<>> THEN [err |-> NoErr, headers |-> acc]
  ELSE LET h == TrimSpace(Head(raw))
           i == IndexOf(h, ":")
           name == TrimSpace(SubSeq(h, 1, i))
           val == TrimSpace(SubSeq(h, i + 2, Len(h)))
       IN IF h = <<>> THEN getExtraHeadersFrom(Tail(raw), acc)
          ELSE IF i <= 0
          THEN [err |-> <<"invalid --header ">> \o h \o <<" (expected 'Name: value')">>,
                headers |-> <<>>]
          ELSE IF name = <<>>
          THEN [err |-> <<"invalid --header ">> \o h \o <<" (empty name)">>, headers |-> <<>>]
          ELSE getExtraHeadersFrom(Tail(raw),
                                   SelectSeq(acc, LAMBDA kv : kv[1] # name) \o <<<<name, val>>>>)

\* The header map is a sequence of <<name, value>> pairs with distinct names.
getExtraHeaders(raw) == getExtraHeadersFrom(raw, <<>>)

HeaderFlagInputs ==
  {<<>>,
   <<<<SP>>, <<"x-xsrf-token-cm", ":", SP, "tok">>>>,
   <<<<"novalue">>>>,
   <<<<":", "v">>>>}

(***************************************************************************)
(* Target Resolver (adam_id.go).  A URL hint is the text of --app-url      *)
(* together with what url.Parse makes of it: whether it fails, the path,   *)
(* the raw path and the value of the query parameter "id".                 *)
(***************************************************************************)
\* The digits appStoreIDPattern, id([0-9]{5,}), captures in a token ("": the
\* token holds no match).
PatternDigits(t) ==
  CASE t = "id123456" -> "123456"
    [] t = "id555555" -> "555555"
    [] t = "id12345" -> "12345"
    [] t = "id00000" -> "00000"
    [] t = "id12345123456789012345" -> "12345123456789012345"
    [] OTHER -> ""

\* strconv.ParseInt(t, 10, 64): a numeral outside int64 and a text that is
\* no numeral are errors.
ParseInt(t) ==
  CASE t = "123456" -> [ok |-> TRUE, n |-> 123456]
    [] t = "555555" -> [ok |-> TRUE, n |-> 555555]
    [] t = "12345" -> [ok |-> TRUE, n |-> 12345]
    [] t = "555" -> [ok |-> TRUE, n |-> 555]
    [] t = "00000" -> [ok |-> TRUE, n |-> 0]
    [] t = "0" -> [ok |-> TRUE, n |-> 0]
    [] t = "-5" -> [ok |-> TRUE, n |-> -5]
    [] OTHER -> [ok |-> FALSE, n |-> 0]

\* ParseInt of a whole text: only a text of one token can be a numeral.
ParseIntText(s) == IF Len(s) = 1 THEN ParseInt(s[1]) ELSE [ok |-> FALSE, n |-> 0]

\* FindStringSubmatch takes the leftmost match only.
parseAdamIDFromText(s) ==
  LET i == IF \E k \in 1..Len(s) : PatternDigits(s[k]) # ""
           THEN CHOOSE k \in 1..Len(s) :
                  /\ PatternDigits(s[k]) # ""
                  /\ \A j \in 1..(k - 1) : PatternDigits(s[j]) = ""
           ELSE 0
      n == IF i > 0 THEN ParseInt(PatternDigits(s[i])) ELSE [ok |-> FALSE, n |-> 0]
  IN IF i = 0 THEN 0
     ELSE IF ~n.ok \/ n.n <= 0 THEN 0
     ELSE n.n

URLHint(text, urlErr, path, rawPath, queryID) ==
  [text |-> text, urlErr |-> urlErr, path |-> path, rawPath |-> rawPath, queryID |-> queryID]

parseAdamIDFromAppURL_TextFirst(u) ==
  LET s == TrimSpace(u.text)
      bare == ParseIntText(s)
      qid == TrimSpace(u.queryID)
      q == ParseIntText(qid)
  IN IF s = <<>> THEN [id |-> 0, err |-> <<"empty value">>]
     ELSE IF bare.ok /\ bare.n > 0 THEN [id |-> bare.n, err |-> NoErr]
     ELSE IF u.urlErr THEN [id |-> 0, err |-> <<"invalid URL: ">> \o u.text]
     ELSE IF parseAdamIDFromText(u.text) > 0
     THEN [id |-> parseAdamIDFromText(u.text), err |-> NoErr]
     ELSE IF parseAdamIDFromText(u.path) > 0
     THEN [id |-> parseAdamIDFromText(u.path), err |-> NoErr]
     ELSE IF parseAdamIDFromText(u.rawPath) > 0
     THEN [id |-> parseAdamIDFromText(u.rawPath), err |-> NoErr]
     ELSE IF qid # <<>> /\ q.ok /\ q.n > 0 THEN [id |-> q.n, err |-> NoErr]
     ELSE [id |-> 0, err |-> <<"could not find adam-id in ">> \o u.text]

parseAdamIDFromAppURL(u) ==
  LET s == TrimSpace(u.text)
      bare == ParseIntText(s)
      qid == TrimSpace(u.queryID)
      q == ParseIntText(qid)
  IN IF s = <<>> THEN [id |-> 0, err |-> <<"empty value">>]
     ELSE IF bare.ok /\ bare.n > 0 THEN [id |-> bare.n, err |-> NoErr]
     ELSE IF u.urlErr THEN [id |-> 0, err |-> <<"invalid URL: ">> \o u.text]
     ELSE IF parseAdamIDFromText(u.path) > 0
     THEN [id |-> parseAdamIDFromText(u.path), err |-> NoErr]
     ELSE IF parseAdamIDFromText(u.rawPath) > 0
     THEN [id |-> parseAdamIDFromText(u.rawPath), err |-> NoErr]
     ELSE IF qid # <<>> /\ q.ok /\ q.n > 0 THEN [id |-> q.n, err |-> NoErr]
     ELSE IF parseAdamIDFromText(u.text) > 0
     THEN [id |-> parseAdamIDFromText(u.text), err |-> NoErr]
     ELSE [id |-> 0, err |-> <<"could not find adam-id in ">> \o u.text]

Entry(id, name, bundle) == [TrackID |-> id, TrackName |-> name, BundleID |-> bundle]

\* The first index of a range loop that satisfies the loop's test (0: none);
\* hits is the set of indices that satisfy it.
FirstIndex(hits) ==
  IF hits = {} THEN 0 ELSE CHOOSE i \in hits : \A j \in hits : i <= j

\* lk: the answer of the iTunes lookup, [err, results].
lookupAdamIDByBundleID(bundleID, lk) ==
  LET normalized == ToLower(TrimSpace(bundleID))
      exact == FirstIndex({k \in 1..Len(lk.results) : lk.results[k].TrackID > 0 /\ ToLower(TrimSpace(lk.results[k].BundleID)) = normalized})
      valid == FirstIndex({k \in 1..Len(lk.results) : lk.results[k].TrackID > 0})
  IN IF lk.err # NoErr THEN [id |-> 0, err |-> lk.err]
     ELSE IF Len(lk.results) = 0
     THEN [id |-> 0, err |-> <<"no App Store result for bundle-id ">> \o bundleID]
     ELSE IF exact > 0 THEN [id |-> lk.results[exact].TrackID, err |-> NoErr]
     ELSE IF valid > 0 THEN [id |-> lk.results[valid].TrackID, err |-> NoErr]
     ELSE [id |-> 0, err |-> <<"no valid adam-id found for bundle-id ">> \o bundleID]

searchAdamIDByAppName(appName, lk) ==
  LET target == ToLower(TrimSpace(appName))
      exact == FirstIndex({k \in 1..Len(lk.results) : lk.results[k].TrackID > 0 /\ ToLower(TrimSpace(lk.results[k].TrackName)) = target})
      valid == FirstIndex({k \in 1..Len(lk.results) : lk.results[k].TrackID > 0})
  IN IF lk.err # NoErr THEN [id |-> 0, err |-> lk.err]
     ELSE IF Len(lk.results) = 0
     THEN [id |-> 0, err |-> <<"no App Store result for app-name ">> \o appName]
     ELSE IF exact > 0 THEN [id |-> lk.results[exact].TrackID, err |-> NoErr]
     ELSE IF valid > 0 THEN [id |-> lk.results[valid].TrackID, err |-> NoErr]
     ELSE [id |-> 0, err |-> <<"no valid adam-id found for app-name ">> \o appName]

errAdamIDNotProvided == <<"adam-id not provided">>

\* Variant: the bundle-id hint is tried before the URL hint.
resolveAdamIDFromFlags_BundleFirst(f, lk) ==
  IF f.adamID > 0 THEN [id |-> f.adamID, err |-> NoErr, how |-> "explicit"]
  ELSE IF TrimSpace(f.bundleID) # <<>>
  THEN LET r == lookupAdamIDByBundleID(TrimSpace(f.bundleID), lk)
       IN IF r.err # NoErr
          THEN [id |-> 0, err |-> <<"resolve from --bundle-id: ">> \o r.err, how |-> "bundle"]
          ELSE [id |-> r.id, err |-> NoErr, how |-> "bundle"]
  ELSE IF TrimSpace(f.appURL.text) # <<>>
  THEN LET r == parseAdamIDFromAppURL(f.appURL)
       IN IF r.err # NoErr
          THEN [id |-> 0, err |-> <<"parse --app-url: ">> \o r.err, how |-> "url"]
          ELSE [id |-> r.id, err |-> NoErr, how |-> "url"]
  ELSE IF TrimSpace(f.appName) # <<>>
  THEN LET r == searchAdamIDByAppName(TrimSpace(f.appName), lk)
       IN IF r.err # NoErr
          THEN [id |-> 0, err |-> <<"resolve from --app-name: ">> \o r.err, how |-> "name"]
          ELSE [id |-> r.id, err |-> NoErr, how |-> "name"]
  ELSE [id |-> 0,
        err |-> errAdamIDNotProvided
                  \o <<": --adam-id is required (or provide --app-url, --bundle-id, or --app-name)">>,
        how |-> "none"]

\* f: the flags adamID, appURL, bundleID, appName; lk: what the storefront
\* lookup made (at most one is) would answer.  how: the strategy that decided.
resolveAdamIDFromFlags(f, lk) ==
  IF f.adamID > 0 THEN [id |-> f.adamID, err |-> NoErr, how |-> "explicit"]
  ELSE IF TrimSpace(f.appURL.text) # <<>>
  THEN LET r == parseAdamIDFromAppURL(f.appURL)
       IN IF r.err # NoErr
          THEN [id |-> 0, err |-> <<"parse --app-url: ">> \o r.err, how |-> "url"]
          ELSE [id |-> r.id, err |-> NoErr, how |-> "url"]
  ELSE IF TrimSpace(f.bundleID) # <<>>
  THEN LET r == lookupAdamIDByBundleID(TrimSpace(f.bundleID), lk)
       IN IF r.err # NoErr
          THEN [id |-> 0, err |-> <<"resolve from --bundle-id: ">> \o r.err, how |-> "bundle"]
          ELSE [id |-> r.id, err |-> NoErr, how |-> "bundle"]
  ELSE IF TrimSpace(f.appName) # <<>>
  THEN LET r == searchAdamIDByAppName(TrimSpace(f.appName), lk)
       IN IF r.err # NoErr
          THEN [id |-> 0, err |-> <<"resolve from --app-name: ">> \o r.err, how |-> "name"]
          ELSE [id |-> r.id, err |-> NoErr, how |-> "name"]
  ELSE [id |-> 0,
        err |-> errAdamIDNotProvided
                  \o <<": --adam-id is required (or provide --app-url, --bundle-id, or --app-name)">>,
        how |-> "none"]

\* errors.Is(err, errAdamIDNotProvided): the sentinel is wrapped only by the
\* last return of resolveAdamIDFromFlags, at the head of the text.
IsAdamIDNotProvided(err) ==
  Len(err) >= Len(errAdamIDNotProvided)
    /\ SubSeq(err, 1, Len(errAdamIDNotProvided)) = errAdamIDNotProvided

\* Hints of the command runs.
URLHints ==
  {URLHint(<<>>, FALSE, <<>>, <<>>, <<>>),
   URLHint(<<SP>>, FALSE, <<>>, <<>>, <<>>),
   URLHint(<<SP, "123456">>, FALSE, <<"/">>, <<>>, <<>>),
   URLHint(<<"https://x/", "id123456", "?id=", "555">>, FALSE, <<"/", "id123456">>, <<>>,
           <<"555">>),
   URLHint(<<"x/app?id=", "555", "#", "id555555">>, FALSE, <<"/app">>, <<>>, <<"555">>),
   URLHint(<<"https://x/app?id=", "0", "#", "id123456">>, FALSE, <<"/app">>, <<>>, <<"0">>),
   URLHint(<<"https://x/app">>, FALSE, <<"/app">>, <<>>, <<>>),
   URLHint(<<"https://%zz/">>, TRUE, <<>>, <<>>, <<>>)}

\* Further hints the resolver is checked on: a numeral that is not positive,
\* a pattern in the host, a path whose digits overflow once unescaped (the
\* raw path keeps the short numeral), a pattern of zeros, a query that is no
\* numeral.
URLHintsMore ==
  {URLHint(<<"0">>, FALSE, <<>>, <<>>, <<>>),
   URLHint(<<"-5">>, FALSE, <<>>, <<>>, <<>>),
   URLHint(<<"https://", "id555555", ".x/", "id123456">>, FALSE, <<"/", "id123456">>, <<>>, <<>>),
   URLHint(<<"https://x/", "id12345", "%31%32%33%34%35%36%37%38%39%30%31%32%33%34%35", "?id=", "555">>,
           FALSE, <<"/", "id12345123456789012345">>,
           <<"/", "id12345", "%31%32%33%34%35%36%37%38%39%30%31%32%33%34%35">>, <<"555">>),
   URLHint(<<"https://x/", "id00000", "/", "id123456">>, FALSE,
           <<"/", "id00000", "/", "id123456">>, <<>>, <<>>),
   URLHint(<<"https://x/", "id00000", "?id=", "555">>, FALSE, <<"/", "id00000">>, <<>>, <<"555">>),
   URLHint(<<"https://x/app?id=", "abc">>, FALSE, <<"/app">>, <<>>, <<"abc">>),
   URLHint(<<"https://x/100%-fun/", "id123456">>, TRUE, <<>>, <<>>, <<>>)}

LookupAnswers ==
  {[err |-> <<"itunes lookup HTTP 503: ">>, results |-> <<>>],
   [err |-> NoErr, results |-> <<>>],
   [err |-> NoErr, results |-> <<Entry(0, <<"Ghost">>, <<"com.x">>)>>],
   [err |-> NoErr,
    results |-> <<Entry(555, <<"Other">>, <<"com.y">>), Entry(123456, <<"Plant App">>, <<"COM.X">>)>>],
   [err |-> NoErr, results |-> <<Entry(0, <<"Ghost">>, <<>>), Entry(555, <<"Other">>, <<"com.y">>)>>]}

ResolveFlagInputs ==
  [adamID : {0, -1, 999}, appURL : URLHints, bundleID : {<<>>, <<SP>>, <<"com.x">>},
   appName : {<<>>, <<"plant app">>}]

(***************************************************************************)
(* Owned-Target Discoverer.                                                *)
(***************************************************************************)
\* Variant: the last campaign with a target wins.
cmDiscoverOwnedAdamID_LastOwned(r) ==
  LET c == cmCampaignsFind(r)
      i == FirstIndex({k \in 1..Len(c.items) :
                         c.items[k].AdamID > 0
                           /\ \A j \in (k + 1)..Len(c.items) : c.items[j].AdamID <= 0})
  IN IF c.err # NoErr THEN [id |-> 0, name |-> <<>>, err |-> c.err]
     ELSE IF i > 0
     THEN [id |-> c.items[i].AdamID, name |-> TrimSpace(c.items[i].Name), err |-> NoErr]
     ELSE [id |-> 0, name |-> <<>>,
           err |-> <<"no owned adam-id found in Apple Ads campaigns">>]

\* Variant: the first campaign wins whatever its target.
cmDiscoverOwnedAdamID_AnyCampaign(r) ==
  LET c == cmCampaignsFind(r)
      i == IF Len(c.items) > 0 THEN 1 ELSE 0
  IN IF c.err # NoErr THEN [id |-> 0, name |-> <<>>, err |-> c.err]
     ELSE IF i > 0
     THEN [id |-> c.items[i].AdamID, name |-> TrimSpace(c.items[i].Name), err |-> NoErr]
     ELSE [id |-> 0, name |-> <<>>,
           err |-> <<"no owned adam-id found in Apple Ads campaigns">>]

\* cm_keywords.go:530-548: the first campaign with AdamID > 0.
cmDiscoverOwnedAdamID(r) ==
  LET c == cmCampaignsFind(r)
      i == FirstIndex({k \in 1..Len(c.items) : c.items[k].AdamID > 0})
  IN IF c.err # NoErr THEN [id |-> 0, name |-> <<>>, err |-> c.err]
     ELSE IF i > 0
     THEN [id |-> c.items[i].AdamID, name |-> TrimSpace(c.items[i].Name), err |-> NoErr]
     ELSE [id |-> 0, name |-> <<>>,
           err |-> <<"no owned adam-id found in Apple Ads campaigns">>]

(***************************************************************************)
(* Result rows.                                                            *)
(***************************************************************************)
CountryList == <<"US", "GB", "JP", "DE">>

\* The keywords of the popscore command, as getKeywordsFlags returns them.
Keywords == <<<<"plant app">>, <<"a">>, <<"c">>>>

normKeyword(s) == ToLower(TrimSpace(s))

\* byName[normKeyword(kw)]: the map keeps the last item written for a key.
ByNameIndex(items, kw) ==
  IF \E i \in 1..Len(items) : normKeyword(items[i].Name) = normKeyword(kw)
  THEN CHOOSE i \in 1..Len(items) :
         /\ normKeyword(items[i].Name) = normKeyword(kw)
         /\ \A j \in (i + 1)..Len(items) : normKeyword(items[j].Name) # normKeyword(kw)
  ELSE 0

\* Variant: the item is looked up by its name as written.
PopscoreRows_ExactName(cc, items) ==
  [k \in 1..Len(Keywords) |->
     LET hits == {i \in 1..Len(items) : items[i].Name = Keywords[k]}
         i == IF hits = {} THEN 0 ELSE CHOOSE n \in hits : \A m \in hits : m <= n
         mt == IF i > 0 THEN TrimSpace(items[i].MatchType) ELSE <<>>
     IN [Keyword |-> Keywords[k], Country |-> cc, Found |-> i > 0,
         HasPopularity |-> i > 0,
         Popularity |-> IF i > 0 THEN items[i].Popularity ELSE 0,
         HasMatchType |-> mt # <<>>, MatchType |-> mt, Source |-> "cm_api_v2"]]

PopscoreRows(cc, items) ==
  [k \in 1..Len(Keywords) |->
     LET i == ByNameIndex(items, Keywords[k])
         mt == IF i > 0 THEN TrimSpace(items[i].MatchType) ELSE <<>>
     IN [Keyword |-> Keywords[k], Country |-> cc, Found |-> i > 0,
         HasPopularity |-> i > 0,
         Popularity |-> IF i > 0 THEN items[i].Popularity ELSE 0,
         HasMatchType |-> mt # <<>>, MatchType |-> mt, Source |-> "cm_api_v2"]]

\* Order of the lower-cased tokens that occur in item names.
TokenOrder == <<SP, "a", "b", "c", "plant app">>

TokenRank(t) == IF \E i \in 1..Len(TokenOrder) : TokenOrder[i] = t
                THEN CHOOSE i \in 1..Len(TokenOrder) : TokenOrder[i] = t
                ELSE Len(TokenOrder) + 1

RECURSIVE TextLess(_, _)
\* a < b for Go strings.
TextLess(a, b) ==
  IF b = <<>> THEN FALSE
  ELSE IF a = <<>> THEN TRUE
  ELSE IF TokenRank(Head(a)) # TokenRank(Head(b)) THEN TokenRank(Head(a)) < TokenRank(Head(b))
  ELSE TextLess(Tail(a), Tail(b))

RecommendLess(a, b) ==
  IF a.Popularity # b.Popularity THEN a.Popularity > b.Popularity
  ELSE TextLess(ToLower(a.Name), ToLower(b.Name))

IndexPermutations(n) == {p \in [1..n -> 1..n] : \A i, j \in 1..n : i # j => p[i] # p[j]}

\* sort.Slice is not stable: every arrangement ordered by the less function.
SortSlice(kept) ==
  {[i \in 1..Len(kept) |-> kept[p[i]]] :
     p \in {q \in IndexPermutations(Len(kept)) :
              \A i, j \in 1..Len(kept) : i < j => ~RecommendLess(kept[q[j]], kept[q[i]])}}

EffectiveLimit(limit) == IF limit <= 0 THEN 50 ELSE limit

\* Variant: the items are sorted and cut to the limit before the threshold
\* and the blank names are filtered out.
RecommendRows_LimitFirst(cc, items, limit, minPop) ==
  {LET cutAll == IF Len(sorted) > EffectiveLimit(limit)
                 THEN SubSeq(sorted, 1, EffectiveLimit(limit)) ELSE sorted
       cut == SelectSeq(cutAll, LAMBDA it : it.Popularity >= minPop /\ TrimSpace(it.Name) # <<>>)
   IN [i \in 1..Len(cut) |->
         LET mt == TrimSpace(cut[i].MatchType)
         IN [Country |-> cc, Seed |-> <<"plant">>, Term |-> cut[i].Name,
             Popularity |-> cut[i].Popularity, HasMatchType |-> mt # <<>>,
             MatchType |-> mt, Rank |-> i, Source |-> "cm_api_v2"]] :
     sorted \in SortSlice(items)}

RecommendRows(cc, items, limit, minPop) ==
  LET kept == SelectSeq(items, LAMBDA it : it.Popularity >= minPop /\ TrimSpace(it.Name) # <<>>)
  IN {LET cut == IF Len(sorted) > EffectiveLimit(limit)
                 THEN SubSeq(sorted, 1, EffectiveLimit(limit)) ELSE sorted
      IN [i \in 1..Len(cut) |->
            LET mt == TrimSpace(cut[i].MatchType)
            IN [Country |-> cc, Seed |-> <<"plant">>, Term |-> cut[i].Name,
                Popularity |-> cut[i].Popularity, HasMatchType |-> mt # <<>>,
                MatchType |-> mt, Rank |-> i, Source |-> "cm_api_v2"]] :
        sorted \in SortSlice(kept)}

\* The sets of row lists one country can add to the output.
RowsFor(c, cc, items) ==
  IF c.cmd = "popscore" THEN {PopscoreRows(cc, items)}
  ELSE RecommendRows(cc, items, c.limit, c.minPop)

Configs ==
  {[cmd |-> "popscore", limit |-> 0, minPop |-> 0],
   [cmd |-> "recommend", limit |-> 0, minPop |-> 0],
   [cmd |-> "recommend", limit |-> 2, minPop |-> 10]}

Endpoint(c) == IF c.cmd = "popscore" THEN "popularities" ELSE "recommendation"

(***************************************************************************)
(* The headers of an upstream request (cmPostJSON, cmGetJSON).  A cookie    *)
(* header is a text in which ";" and "=" are tokens of their own.  A header *)
(* map (http.Header) is a function from canonical names to values.         *)
(***************************************************************************)
RECURSIVE Split(_, _)
\* strings.Split(s, sep) for a separator of one token.
Split(s, sep) ==
  LET i == IndexOf(s, sep)
  IN IF i < 0 THEN <<s>>
     ELSE <<SubSeq(s, 1, i)>> \o Split(SubSeq(s, i + 2, Len(s)), sep)

\* Variant: the key of a cookie part is compared as written.
cookieValue_CaseSensitive(cookieHeader, key) ==
  LET target == TrimSpace(key)
      parts == Split(cookieHeader, ";")
      hits == {k \in 1..Len(parts) :
                 LET part == TrimSpace(parts[k])
                     i == IndexOf(part, "=")
                 IN part # <<>> /\ i > 0 /\ TrimSpace(SubSeq(part, 1, i)) = target}
      n == FirstIndex(hits)
  IN IF n = 0 THEN <<>>
     ELSE LET part == TrimSpace(parts[n])
          IN TrimSpace(SubSeq(part, IndexOf(part, "=") + 2, Len(part)))

cookieValue(cookieHeader, key) ==
  LET target == ToLower(TrimSpace(key))
      parts == Split(cookieHeader, ";")
      hits == {k \in 1..Len(parts) :
                 LET part == TrimSpace(parts[k])
                     i == IndexOf(part, "=")
                 IN part # <<>> /\ i > 0 /\ ToLower(TrimSpace(SubSeq(part, 1, i))) = target}
      n == FirstIndex(hits)
  IN IF n = 0 THEN <<>>
     ELSE LET part == TrimSpace(parts[n])
          IN TrimSpace(SubSeq(part, IndexOf(part, "=") + 2, Len(part)))

\* headers: the --header map, a sequence of <<name, value>> pairs.
hasHeaderCaseInsensitive(headers, name) ==
  \E k \in 1..Len(headers) : ToLower(TrimSpace(headers[k][1])) = ToLower(TrimSpace(name))

\* textproto.CanonicalMIMEHeaderKey, which http.Header.Set applies to the
\* name: the first letter and every letter after a hyphen in upper case, the
\* others in lower case; a name holding a blank is left as it is.
CanonicalTok(t) ==
  CASE ToLowerTok(t) = "x-xsrf-token-cm" -> "X-Xsrf-Token-Cm"
    [] t \in {"Cookie", "cookie", "COOKIE"} -> "Cookie"
    [] t \in {"Accept", "accept"} -> "Accept"
    [] t = "x-requested-with" -> "X-Requested-With"
    [] t = "x-extra" -> "X-Extra"
    [] OTHER -> t

CanonicalMIMEHeaderKey(name) ==
  IF Len(name) = 1 THEN <<CanonicalTok(name[1])>> ELSE name

HeaderSet(h, name, value) ==
  LET key == CanonicalMIMEHeaderKey(name)
  IN [n \in DOMAIN h \cup {key} |-> IF n = key THEN value ELSE h[n]]

HeaderGet(h, name) ==
  IF CanonicalMIMEHeaderKey(name) \in DOMAIN h THEN h[CanonicalMIMEHeaderKey(name)] ELSE <<>>

HeaderHas(h, name) == CanonicalMIMEHeaderKey(name) \in DOMAIN h

RECURSIVE HeaderSetAll(_, _)
HeaderSetAll(h, pairs) ==
  IF pairs = <<>> THEN h
  ELSE HeaderSetAll(HeaderSet(h, Head(pairs)[1], Head(pairs)[2]), Tail(pairs))

UserAgentText == <<"Mozilla/5.0 (Macintosh; Intel Mac OS X 10_15_7) AppleWebKit/537.36 (KHTML, like Gecko) Chrome/122.0.0.0 Safari/537.36">>

\* The headers set before the token and the extra ones; post: cmPostJSON.
DefaultHeaders(post, cookieHeader) ==
  <<<<<<"Accept">>, <<"application/json">>>>>>
    \o (IF post THEN <<<<<<"Content-Type">>, <<"application/json">>>>>> ELSE <<>>)
    \o <<<<<<"Cookie">>, cookieHeader>>,
         <<<<"Origin">>, <<"https://app-ads.apple.com">>>>,
         <<<<"Referer">>, <<"https://app-ads.apple.com/">>>>,
         <<<<"X-Requested-With">>, <<"XMLHttpRequest">>>>,
         <<<<"User-Agent">>, UserAgentText>>>>

\* Variant: the token of the credential is set after the caller's headers,
\* whether or not the caller gave that header.
cmRequestHeaders_TokenLast(post, cookieHeader, headers) ==
  LET base == HeaderSetAll(<<>>, DefaultHeaders(post, cookieHeader))
      token == cookieValue(cookieHeader, <<"XSRF-TOKEN-CM">>)
  IN {LET h == HeaderSetAll(base, [i \in 1..Len(headers) |-> headers[p[i]]])
      IN IF token # <<>> THEN HeaderSet(h, <<"X-XSRF-TOKEN-CM">>, token) ELSE h :
        p \in IndexPermutations(Len(headers))}

\* The headers of the request cmPostJSON (post) or cmGetJSON builds.  The
\* caller's headers are set in the order the map is ranged over, which is
\* any order: every header map the request may end with.
cmRequestHeaders(post, cookieHeader, headers) ==
  LET base == HeaderSetAll(<<>>, DefaultHeaders(post, cookieHeader))
      token == cookieValue(cookieHeader, <<"XSRF-TOKEN-CM">>)
      withToken == IF token # <<>> /\ ~hasHeaderCaseInsensitive(headers, <<"X-XSRF-TOKEN-CM">>)
                   THEN HeaderSet(base, <<"X-XSRF-TOKEN-CM">>, token)
                   ELSE base
  IN {HeaderSetAll(withToken, [i \in 1..Len(headers) |-> headers[p[i]]]) :
        p \in IndexPermutations(Len(headers))}

(***************************************************************************)
(* What the upstream service may answer to the command's calls.            *)
(***************************************************************************)
DataResponses ==
  {Resp(200, SuccessBody("string", <<"SUCCESS">>, <<KwA, KwB, KwC>>)),
   Resp(200, RefreshEnvelope("absent", <<>>, FALSE)),
   Resp(200, RefreshEnvelope("string", <<"error">>, FALSE)),
   Resp(401, RefreshEnvelope("absent", <<>>, FALSE)),
   Resp(401, RefreshEnvelope("absent", <<>>, TRUE)),
   Resp(200, FlatBody("string", <<"error">>, <<"AUTH">>, <<>>, <<"User is not logged in">>, FALSE)),
   Resp(403, TextBody(<<"<html>Forbidden</html>">>, TRUE)),
   Resp(403, FlatBody("absent", <<>>, <<"NO_USER_OWNED_APPS_FOUND_CODE">>, <<>>, <<>>, FALSE)),
   Resp(200, NestedBody("string", <<"error">>, <<ErrNotOwned, ErrInvalid>>)),
   Resp(500, TextBody(<<"oops">>, FALSE)),
   NetErrResp}

\* The popularities endpoint may also answer with two items of one
\* normalized name.
PopularityResponses ==
  DataResponses \cup {Resp(200, SuccessBody("absent", <<>>, <<KwPlant, KwPlantAgain>>))}

ResponsesFor(c) == IF c.cmd = "popscore" THEN PopularityResponses ELSE DataResponses

CampaignResponses ==
  {Resp(200, SuccessBody("string", <<"success">>, <<CampNone, CampOwned, CampOther>>)),
   Resp(200, SuccessBody("absent", <<>>, <<CampOther>>)),
   Resp(200, SuccessBody("absent", <<>>, <<CampNone>>)),
   Resp(401, RefreshEnvelope("absent", <<>>, FALSE)),
   Resp(403, TextBody(<<"<html>Forbidden</html>">>, FALSE)),
   Resp(200, NestedBody("string", <<"error">>, <<ErrNotOwned>>)),
   Resp(500, TextBody(<<"oops">>, FALSE))}

(***************************************************************************)
(* The command (RunE of popscore and of recommend) as a state machine.     *)
(* pc is the position in RunE and its callees; an action is one external   *)
(* interaction (file read, refresher run, HTTP exchange) followed by the   *)
(* code up to the next one.                                                *)
(***************************************************************************)
VARIABLES
  pc,                          \* position in the command
  cfg,                         \* the command and its --limit, --min-popularity
  autoCookie,                  \* --auto-cookie
  nCountries,                  \* len(countries)
  cookieFile,                  \* the file at --cookie-file (or the default path)
  cookie,                      \* the working credential
  extraHeaders,                \* the --header map
  adamID,                      \* the working target id
  attemptedOwnedAdamFallback,
  ci,                          \* index of the country being processed
  out,                         \* rows collected so far
  result,                      \* the error RunE returns (NoErr: none)
  output,                      \* what printOutput wrote: <<rows>>, or <<>> for nothing
  discRet,                     \* who called discoverOwnedAdamIDWithRefresh
  discCookie,                  \* the cookie local to discoverOwnedAdamIDWithRefresh
  calls,                       \* history: number of calls of each kind
  refreshes,                   \* history: refresher runs at each call site
  src,                         \* history: where the credential and the target came from
  hist,                        \* history: facts about the calls made so far
  last,                        \* history: the last operation
  clsResp,                     \* classifier check: the response classified
  clsOut,                      \* classifier check: the result
  fnIn,                        \* resolver check: the flags and answers given
  fnOut,                       \* resolver check: the result
  refresher                    \* refresher check: one run of the refresher, step by step

orchVars ==
  <<pc, cfg, autoCookie, nCountries, cookieFile, cookie, extraHeaders, adamID,
    attemptedOwnedAdamFallback, ci, out, result, output, discRet, discCookie,
    calls, refreshes, src, hist, last>>

clsVars == <<clsResp, clsOut>>

fnVars == <<fnIn, fnOut>>

refVars == <<refresher>>

vars == <<orchVars, clsVars, fnVars, refVars>>

NoReq == [cookie |-> <<>>, adamID |-> 0, country |-> 0]

\* What an operation other than an upstream call was given: the --cookie
\* flag and whether --cookie-file is blank (getCookieFlag), the error of the
\* call that led to a refresher run which failed.
NoIn == [flag |-> <<>>, fileFlagBlank |-> FALSE, cause |-> <<>>]

NoOp ==
  [op |-> "none", site |-> "none", resp |-> NetErrResp, class |-> "none", err |-> NoErr,
   req |-> NoReq, in |-> NoIn]

\* The record of an operation other than an upstream call.
OpIn(op, site, err, in) ==
  [op |-> op, site |-> site, resp |-> NetErrResp, class |-> "none", err |-> err,
   req |-> NoReq, in |-> in]

Op(op, site, r, err) ==
  [op |-> op, site |-> site, resp |-> r, class |-> "none", err |-> err, req |-> NoReq,
   in |-> NoIn]

\* The record of an upstream call: what was sent, what came back and how the
\* outcome classifies.
CallOp(op, site, r, err, ck, id, country) ==
  [op |-> op, site |-> site, resp |-> r, class |-> Classify(err), err |-> err,
   req |-> [cookie |-> ck, adamID |-> id, country |-> country], in |-> NoIn]

\* One run of refreshCMCookieInteractively: pc is the position in it,
\* cancelledAt the position at which the context passed in was cancelled
\* ("none": it is live), entered the number of lines read from the terminal,
\* run what the browser does, file0 the credential file at the start,
\* cookieHeader the text exported, cookie and err the values returned.
NoRefresher ==
  [pc |-> "none", cancelledAt |-> "none", entered |-> 0,
   run |-> RefreshRun(FALSE, FALSE, <<>>, FALSE), file0 |-> FileMissing,
   cookieHeader |-> <<>>, cookie |-> <<>>, err |-> NoErr]

NoClsOut == [fn |-> "none", items |-> <<>>, err |-> NoErr, after |-> "none"]

NoFlags == [adamID |-> 0, appURL |-> URLHint(<<>>, FALSE, <<>>, <<>>, <<>>), bundleID |-> <<>>,
            appName |-> <<>>]

\* cookie, raw, post: the credential, the --header flags and the method of a
\* request whose headers are built; items, limit, minPop: the items of one
\* country with --limit and --min-popularity.
NoFnIn == [kind |-> "none", f |-> NoFlags, lk |-> [err |-> NoErr, results |-> <<>>],
           resp |-> NetErrResp, cookie |-> <<>>, raw |-> <<>>, post |-> FALSE,
           items |-> <<>>, limit |-> 0, minPop |-> 0]

NoFnOut == [fn |-> "none", id |-> 0, name |-> <<>>, err |-> NoErr, how |-> "none", hdr |-> <<>>,
            rows |-> <<>>]

\* allExpired, allNotOwned: every data call so far was classified so;
\* refreshFailed: a refresher run failed; fallbackFailed: the fallback
\* discovery failed; lastCalled: the last country a data call was issued for;
\* failedCountry: the country in whose iteration RunE returned an error;
\* switchedFrom, switchedTo: the target the fallback left and the one it took;
\* discoveredID: the target the discovery of resolveAdamIDForCMCommand returned;
\* refreshedHere: the refresher succeeded in the iteration of the current
\* country (at line 135 or inside the fallback discovery of line 142).
NoHist ==
  [allExpired |-> TRUE, allNotOwned |-> TRUE, refreshFailed |-> FALSE,
   fallbackFailed |-> FALSE, lastCalled |-> 0, failedCountry |-> 0,
   switchedFrom |-> 0, switchedTo |-> 0, discoveredID |-> 0, refreshedHere |-> FALSE]

CookieFileStates ==
  {FileMissing, FileUnreadable, FileWith(<<>>), FileWith(<<"COOKIE:", SP, "sid=1", NL>>)}

FlagCookies == {<<>>, <<SP>>, <<"sid=0">>, <<"Cookie:", "sid=0", SP>>, <<"cookie:", SP>>}

OrchInit ==
  /\ pc = "getCookie"
  /\ cfg \in Configs
  /\ autoCookie \in BOOLEAN
  /\ nCountries \in 1..MaxCountries
  /\ cookieFile \in CookieFileStates
  /\ cookie = <<>>
  /\ extraHeaders = <<>>
  /\ adamID = 0
  /\ attemptedOwnedAdamFallback = FALSE
  /\ ci = 1
  /\ out = <<>>
  /\ result = NoErr
  /\ output = <<>>
  /\ discRet = "none"
  /\ discCookie = <<>>
  /\ calls = [data |-> 0, campaign |-> 0, fallback |-> 0, fileReads |-> 0, fileWrites |-> 0]
  /\ refreshes = [load |-> 0, resolve |-> 0, loop |-> 0, fallback |-> 0]
  /\ src = [cookie |-> "none", adam |-> "none"]
  /\ hist = NoHist
  /\ last = NoOp

Init ==
  /\ OrchInit
  /\ clsResp = NetErrResp
  /\ clsOut = NoClsOut
  /\ fnIn = NoFnIn
  /\ fnOut = NoFnOut
  /\ refresher = NoRefresher

TotalRefreshes ==
  refreshes.load + refreshes.resolve + refreshes.loop + refreshes.fallback

\* RunE returns err.
Return(err) ==
  /\ pc' = "done"
  /\ result' = err

\* cm_keywords.go:107-110 (213-216)
GetCookieFlag ==
  /\ pc = "getCookie"
  /\ \E fc \in FlagCookies, blank \in BOOLEAN :
       LET g == getCookieFlag(fc, blank, cookieFile, autoCookie)
       IN /\ calls' = [calls EXCEPT !.fileReads = @ + (IF g.read THEN 1 ELSE 0)]
          /\ last' = OpIn("getCookieFlag", IF g.read THEN "file" ELSE "flag", g.err,
                          [NoIn EXCEPT !.flag = fc, !.fileFlagBlank = blank])
          /\ IF g.err # NoErr
             THEN Return(g.err) /\ UNCHANGED <<cookie, src>>
             ELSE IF g.refresh
             THEN pc' = "loadRefresh" /\ UNCHANGED <<cookie, src, result>>
             ELSE /\ pc' = "getHeaders"
                  /\ cookie' = g.cookie
                  /\ src' = [src EXCEPT !.cookie = IF g.read THEN "file" ELSE "flag"]
                  /\ UNCHANGED result
  /\ UNCHANGED <<cfg, autoCookie, nCountries, cookieFile, extraHeaders, adamID,
                 attemptedOwnedAdamFallback, ci, out, output, discRet, discCookie,
                 refreshes, hist, clsVars, fnVars, refVars>>

\* getCookieFlag's refresh, cm_keywords.go:370-371
LoadRefresh ==
  /\ pc = "loadRefresh"
  /\ \E run \in RefreshRuns(TotalRefreshes + 1) :
       LET r == refreshCMCookieInteractively(run, cookieFile)
       IN /\ cookieFile' = r.file
          /\ refreshes' = [refreshes EXCEPT !.load = @ + 1]
          /\ calls' = [calls EXCEPT !.fileWrites = @ + (IF r.err = NoErr THEN 1 ELSE 0)]
          /\ hist' = [hist EXCEPT !.refreshFailed = @ \/ r.err # NoErr]
          /\ last' = Op("refresh", "load", NetErrResp, r.err)
          /\ IF r.err # NoErr
             THEN Return(r.err) /\ UNCHANGED <<cookie, src>>
             ELSE /\ pc' = "getHeaders"
                  /\ cookie' = r.cookie
                  /\ src' = [src EXCEPT !.cookie = "refresh"]
                  /\ UNCHANGED result
  /\ UNCHANGED <<cfg, autoCookie, nCountries, extraHeaders, adamID,
                 attemptedOwnedAdamFallback, ci, out, output, discRet, discCookie, clsVars, fnVars, refVars>>

\* cm_keywords.go:112-115 (218-221)
GetExtraHeaders ==
  /\ pc = "getHeaders"
  /\ \E raw \in HeaderFlagInputs :
       LET h == getExtraHeaders(raw)
       IN /\ last' = Op("getExtraHeaders", "none", NetErrResp, h.err)
          /\ IF h.err # NoErr
             THEN Return(h.err) /\ UNCHANGED extraHeaders
             ELSE pc' = "resolve" /\ extraHeaders' = h.headers /\ UNCHANGED result
  /\ UNCHANGED <<cfg, autoCookie, nCountries, cookieFile, cookie, adamID,
                 attemptedOwnedAdamFallback, ci, out, output, discRet, discCookie,
                 calls, refreshes, src, hist, clsVars, fnVars, refVars>>

\* Variant: every error of the resolver leads to the discovery.
ResolveAdamID_DiscoverOnAnyError ==
  /\ pc = "resolve"
  /\ \E f \in ResolveFlagInputs, lk \in LookupAnswers :
       LET r == resolveAdamIDFromFlags(f, lk)
       IN /\ last' = Op("resolve", r.how, NetErrResp, r.err)
          /\ IF r.err = NoErr
             THEN /\ pc' = "call"
                  /\ adamID' = r.id
                  /\ src' = [src EXCEPT !.adam = IF r.how = "explicit" THEN "explicit" ELSE "hint"]
                  /\ UNCHANGED <<result, discRet, discCookie>>
             ELSE /\ pc' = "discover"
                  /\ discRet' = "resolve"
                  /\ discCookie' = cookie
                  /\ UNCHANGED <<adamID, src, result>>
  /\ UNCHANGED <<cfg, autoCookie, nCountries, cookieFile, cookie, extraHeaders,
                 attemptedOwnedAdamFallback, ci, out, output, calls, refreshes, hist, clsVars, fnVars, refVars>>

\* resolveAdamIDForCMCommand up to the discovery, cm_keywords.go:428-436
ResolveAdamID ==
  /\ pc = "resolve"
  /\ \E f \in ResolveFlagInputs, lk \in LookupAnswers :
       LET r == resolveAdamIDFromFlags(f, lk)
       IN /\ last' = Op("resolve", r.how, NetErrResp, r.err)
          /\ IF r.err = NoErr
             THEN /\ pc' = "call"
                  /\ adamID' = r.id
                  /\ src' = [src EXCEPT !.adam = IF r.how = "explicit" THEN "explicit" ELSE "hint"]
                  /\ UNCHANGED <<result, discRet, discCookie>>
             ELSE IF ~IsAdamIDNotProvided(r.err)
             THEN Return(r.err) /\ UNCHANGED <<adamID, src, discRet, discCookie>>
             ELSE /\ pc' = "discover"
                  /\ discRet' = "resolve"
                  /\ discCookie' = cookie
                  /\ UNCHANGED <<adamID, src, result>>
  /\ UNCHANGED <<cfg, autoCookie, nCountries, cookieFile, cookie, extraHeaders,
                 attemptedOwnedAdamFallback, ci, out, output, calls, refreshes, hist, clsVars, fnVars, refVars>>

\* Variant: the fallback keeps the target it was given.
DiscoverReturn_NoSwitch(id, ck, derr) ==
  IF discRet = "resolve"
  THEN IF derr # NoErr
       THEN /\ Return(<<"auto-resolve adam-id from Apple Ads account: ">> \o derr)
            /\ UNCHANGED <<adamID, cookie, src>>
       ELSE /\ pc' = "call"
            /\ adamID' = id
            /\ cookie' = ck
            /\ src' = [src EXCEPT !.adam = "discovered"]
            /\ UNCHANGED result
  ELSE IF derr # NoErr
       THEN /\ Return(<<"adam-id ", ToString(adamID),
                        " is not accessible for this Apple Ads account, and auto-discovery failed: ">>
                        \o derr)
            /\ UNCHANGED <<adamID, cookie, src>>
       ELSE /\ pc' = "callAfterFallback"
            /\ adamID' = adamID
            /\ cookie' = ck
            /\ src' = src
            /\ UNCHANGED result

\* Variant: the fallback drops the cookie the discovery hands back.
DiscoverReturn_KeepCookie(id, ck, derr) ==
  IF discRet = "resolve"
  THEN IF derr # NoErr
       THEN /\ Return(<<"auto-resolve adam-id from Apple Ads account: ">> \o derr)
            /\ UNCHANGED <<adamID, cookie, src>>
       ELSE /\ pc' = "call"
            /\ adamID' = id
            /\ cookie' = ck
            /\ src' = [src EXCEPT !.adam = "discovered"]
            /\ UNCHANGED result
  ELSE IF derr # NoErr
       THEN /\ Return(<<"adam-id ", ToString(adamID),
                        " is not accessible for this Apple Ads account, and auto-discovery failed: ">>
                        \o derr)
            /\ UNCHANGED <<adamID, cookie, src>>
       ELSE /\ pc' = "callAfterFallback"
            /\ adamID' = IF id > 0 /\ id # adamID THEN id ELSE adamID
            /\ cookie' = cookie
            /\ src' = [src EXCEPT !.adam = IF id > 0 /\ id # adamID THEN "discovered" ELSE @]
            /\ UNCHANGED result

\* Variant: resolveAdamIDForCMCommand returns its own zero id, not the one
\* the discovery found.
DiscoverReturn_DropDiscovered(id, ck, derr) ==
  IF discRet = "resolve"
  THEN IF derr # NoErr
       THEN /\ Return(<<"auto-resolve adam-id from Apple Ads account: ">> \o derr)
            /\ UNCHANGED <<adamID, cookie, src>>
       ELSE /\ pc' = "call"
            /\ adamID' = 0
            /\ cookie' = ck
            /\ src' = [src EXCEPT !.adam = "discovered"]
            /\ UNCHANGED result
  ELSE IF derr # NoErr
       THEN /\ Return(<<"adam-id ", ToString(adamID),
                        " is not accessible for this Apple Ads account, and auto-discovery failed: ">>
                        \o derr)
            /\ UNCHANGED <<adamID, cookie, src>>
       ELSE /\ pc' = "callAfterFallback"
            /\ adamID' = IF id > 0 /\ id # adamID THEN id ELSE adamID
            /\ cookie' = ck
            /\ src' = [src EXCEPT !.adam = IF id > 0 /\ id # adamID THEN "discovered" ELSE @]
            /\ UNCHANGED result

\* The return of discoverOwnedAdamIDWithRefresh to its caller:
\* resolveAdamIDForCMCommand (cm_keywords.go:436-441, then 118-121), or the
\* owned-target fallback of the country loop (cm_keywords.go:143-151).
DiscoverReturn(id, ck, derr) ==
  IF discRet = "resolve"
  THEN IF derr # NoErr
       THEN /\ Return(<<"auto-resolve adam-id from Apple Ads account: ">> \o derr)
            /\ UNCHANGED <<adamID, cookie, src>>
       ELSE /\ pc' = "call"
            /\ adamID' = id
            /\ cookie' = ck
            /\ src' = [src EXCEPT !.adam = "discovered"]
            /\ UNCHANGED result
  ELSE IF derr # NoErr
       THEN /\ Return(<<"adam-id ", ToString(adamID),
                        " is not accessible for this Apple Ads account, and auto-discovery failed: ">>
                        \o derr)
            /\ UNCHANGED <<adamID, cookie, src>>
       ELSE /\ pc' = "callAfterFallback"
            /\ adamID' = IF id > 0 /\ id # adamID THEN id ELSE adamID
            /\ cookie' = ck
            /\ src' = [src EXCEPT !.adam = IF id > 0 /\ id # adamID THEN "discovered" ELSE @]
            /\ UNCHANGED result

\* The history after discoverOwnedAdamIDWithRefresh returned derr.
HistAfterDiscovery(derr, refreshErr) ==
  LET switch == discRet = "fallback" /\ derr = NoErr /\ adamID' # adamID
  IN [hist EXCEPT !.refreshFailed = @ \/ refreshErr,
                  !.fallbackFailed = @ \/ (discRet = "fallback" /\ derr # NoErr),
                  !.failedCountry = IF discRet = "fallback" /\ derr # NoErr THEN ci ELSE @,
                  !.switchedFrom = IF switch THEN adamID ELSE @,
                  !.switchedTo = IF switch THEN adamID' ELSE @,
                  !.discoveredID = IF discRet = "resolve" /\ derr = NoErr THEN adamID' ELSE @]

\* Variant: the discovery refreshes whatever --auto-cookie.
AfterDiscover_NoAutoTest(err, auto) ==
  IF err # NoErr /\ isCMRefreshError(err) THEN "refresh" ELSE "return"

\* The guard of cm_keywords.go:466.
AfterDiscover(err, auto) ==
  IF err # NoErr /\ auto /\ isCMRefreshError(err) THEN "refresh" ELSE "return"

\* discoverOwnedAdamIDWithRefresh, cm_keywords.go:465-466 and 474-477
Discover ==
  /\ pc = "discover"
  /\ \E r \in CampaignResponses :
       LET d == cmDiscoverOwnedAdamID(r)
       IN /\ calls' = [calls EXCEPT !.campaign = @ + 1]
          /\ last' = CallOp("campaignCall", "first", r, d.err, discCookie, 0, 0)
          /\ IF AfterDiscover(d.err, autoCookie) = "refresh"
             THEN /\ pc' = "discRefresh"
                  /\ UNCHANGED <<adamID, cookie, src, result, hist>>
             ELSE /\ DiscoverReturn(d.id, discCookie, d.err)
                  /\ hist' = HistAfterDiscovery(d.err, FALSE)
  /\ UNCHANGED <<cfg, autoCookie, nCountries, cookieFile, extraHeaders,
                 attemptedOwnedAdamFallback, ci, out, output, discRet, discCookie,
                 refreshes, clsVars, fnVars, refVars>>

\* discoverOwnedAdamIDWithRefresh, cm_keywords.go:467-471
DiscoverRefresh ==
  /\ pc = "discRefresh"
  /\ \E run \in RefreshRuns(TotalRefreshes + 1) :
       LET r == refreshCMCookieInteractively(run, cookieFile)
       IN /\ cookieFile' = r.file
          /\ refreshes' = IF discRet = "resolve"
                          THEN [refreshes EXCEPT !.resolve = @ + 1]
                          ELSE [refreshes EXCEPT !.fallback = @ + 1]
          /\ calls' = [calls EXCEPT !.fileWrites = @ + (IF r.err = NoErr THEN 1 ELSE 0)]
          /\ last' = OpIn("refresh", "discover", r.err, [NoIn EXCEPT !.cause = IF r.err # NoErr THEN last.err ELSE <<>>])
          /\ discCookie' = r.cookie
          /\ IF r.err # NoErr
             THEN /\ DiscoverReturn(0, r.cookie, r.err)
                  /\ hist' = HistAfterDiscovery(r.err, TRUE)
             ELSE /\ pc' = "discRetry"
                  /\ hist' = [hist EXCEPT !.refreshedHere = @ \/ discRet = "fallback"]
                  /\ UNCHANGED <<adamID, cookie, src, result>>
  /\ UNCHANGED <<cfg, autoCookie, nCountries, extraHeaders, attemptedOwnedAdamFallback,
                 ci, out, output, discRet, clsVars, fnVars, refVars>>

\* discoverOwnedAdamIDWithRefresh, cm_keywords.go:472-477
DiscoverRetry ==
  /\ pc = "discRetry"
  /\ \E r \in CampaignResponses :
       LET d == cmDiscoverOwnedAdamID(r)
       IN /\ calls' = [calls EXCEPT !.campaign = @ + 1]
          /\ last' = CallOp("campaignCall", "afterRefresh", r, d.err, discCookie, 0, 0)
          /\ DiscoverReturn(d.id, discCookie, d.err)
          /\ hist' = HistAfterDiscovery(d.err, FALSE)
  /\ UNCHANGED <<cfg, autoCookie, nCountries, cookieFile, extraHeaders,
                 attemptedOwnedAdamFallback, ci, out, output, discRet, discCookie,
                 refreshes, clsVars, fnVars, refVars>>

\* Variant: the refresh guard is a loop, a retry that is rejected refreshes again.
AfterCall_RetryLoop(site, err, auto, attempted) ==
  IF site # "afterFallback" /\ err # NoErr /\ auto /\ isCMRefreshError(err) THEN "refresh"
  ELSE IF site # "afterFallback" /\ err # NoErr /\ ~attempted /\ isCMNoUserOwnedAppsError(err)
  THEN "fallback"
  ELSE IF err # NoErr THEN "fail"
  ELSE "ok"

\* Variant: no refresh in the country loop.
AfterCall_NoRefresh(site, err, auto, attempted) ==
  IF site # "afterFallback" /\ err # NoErr /\ ~attempted /\ isCMNoUserOwnedAppsError(err)
  THEN "fallback"
  ELSE IF err # NoErr THEN "fail"
  ELSE "ok"

\* Variant: the fallback guard does not test attemptedOwnedAdamFallback.
AfterCall_RepeatFallback(site, err, auto, attempted) ==
  IF site = "first" /\ err # NoErr /\ auto /\ isCMRefreshError(err) THEN "refresh"
  ELSE IF site # "afterFallback" /\ err # NoErr /\ isCMNoUserOwnedAppsError(err)
  THEN "fallback"
  ELSE IF err # NoErr THEN "fail"
  ELSE "ok"

\* Variant: a failed country is skipped (continue) instead of returned.
AfterCall_ContinueOnFail(site, err, auto, attempted) ==
  IF site = "first" /\ err # NoErr /\ auto /\ isCMRefreshError(err) THEN "refresh"
  ELSE IF site # "afterFallback" /\ err # NoErr /\ ~attempted /\ isCMNoUserOwnedAppsError(err)
  THEN "fallback"
  ELSE "ok"

\* What the country loop does with the outcome of a data call made at site
\* "first" (cm_keywords.go:132), "afterRefresh" (:139) or "afterFallback"
\* (:152): the guards of lines 133, 141 and 154.
AfterCall(site, err, auto, attempted) ==
  IF site = "first" /\ err # NoErr /\ auto /\ isCMRefreshError(err) THEN "refresh"
  ELSE IF site # "afterFallback" /\ err # NoErr /\ ~attempted /\ isCMNoUserOwnedAppsError(err)
  THEN "fallback"
  ELSE IF err # NoErr THEN "fail"
  ELSE "ok"

\* One data call of the country loop and the code that follows it up to the
\* next external interaction, cm_keywords.go:131-181 (243-307).
DataCall(site) ==
  \E r \in ResponsesFor(cfg) :
    LET res == cmKeywordCall(Endpoint(cfg), r)
        d == AfterCall(site, res.err, autoCookie, attemptedOwnedAdamFallback)
        cls == Classify(res.err)
    IN /\ calls' = [calls EXCEPT !.data = @ + 1,
                                 !.fallback = @ + (IF d = "fallback" THEN 1 ELSE 0)]
       /\ last' = CallOp("dataCall", site, r, res.err, cookie, adamID, ci)
       /\ hist' = [hist EXCEPT !.allExpired = @ /\ cls = "CredentialExpired",
                               !.allNotOwned = @ /\ cls = "TargetNotOwned",
                               !.lastCalled = ci,
                               !.failedCountry =
                                 IF res.err # NoErr /\ d \notin {"refresh", "fallback"}
                                 THEN ci ELSE @,
                               !.refreshedHere = IF d = "ok" THEN FALSE ELSE @]
       /\ CASE d = "refresh" ->
                 /\ pc' = "loopRefresh"
                 /\ UNCHANGED <<attemptedOwnedAdamFallback, discRet, discCookie, result, out, ci>>
            [] d = "fallback" ->
                 /\ pc' = "discover"
                 /\ attemptedOwnedAdamFallback' = TRUE
                 /\ discRet' = "fallback"
                 /\ discCookie' = cookie
                 /\ UNCHANGED <<result, out, ci>>
            [] d = "fail" ->
                 /\ Return(res.err)
                 /\ UNCHANGED <<attemptedOwnedAdamFallback, discRet, discCookie, out, ci>>
            [] OTHER ->
                 /\ \E rows \in RowsFor(cfg, CountryList[ci], res.items) : out' = out \o rows
                 /\ ci' = ci + 1
                 /\ pc' = IF ci + 1 > nCountries THEN "print" ELSE "call"
                 /\ UNCHANGED <<attemptedOwnedAdamFallback, discRet, discCookie, result>>

\* cm_keywords.go:132 (244)
CallCountry ==
  /\ pc = "call"
  /\ DataCall("first")
  /\ UNCHANGED <<cfg, autoCookie, nCountries, cookieFile, cookie, extraHeaders, adamID,
                 output, refreshes, src, clsVars, fnVars, refVars>>

\* Variant: a failed refresh is followed by the re-call all the same.
RefreshInLoop_CallAnyway ==
  /\ pc = "loopRefresh"
  /\ \E run \in RefreshRuns(TotalRefreshes + 1) :
       LET r == refreshCMCookieInteractively(run, cookieFile)
       IN /\ cookieFile' = r.file
          /\ refreshes' = [refreshes EXCEPT !.loop = @ + 1]
          /\ calls' = [calls EXCEPT !.fileWrites = @ + (IF r.err = NoErr THEN 1 ELSE 0)]
          /\ last' = OpIn("refresh", "loop", r.err, [NoIn EXCEPT !.cause = IF r.err # NoErr THEN last.err ELSE <<>>])
          /\ cookie' = r.cookie
          /\ IF r.err # NoErr
             THEN /\ pc' = "callAfterRefresh"
                  /\ hist' = [hist EXCEPT !.refreshFailed = TRUE]
                  /\ UNCHANGED result
             ELSE /\ pc' = "callAfterRefresh"
                  /\ hist' = [hist EXCEPT !.refreshedHere = TRUE]
                  /\ UNCHANGED result
  /\ UNCHANGED <<cfg, autoCookie, nCountries, extraHeaders, adamID,
                 attemptedOwnedAdamFallback, ci, out, output, discRet, discCookie, src,
                 clsVars, fnVars, refVars>>

\* cm_keywords.go:135-138 (247-250)
RefreshInLoop ==
  /\ pc = "loopRefresh"
  /\ \E run \in RefreshRuns(TotalRefreshes + 1) :
       LET r == refreshCMCookieInteractively(run, cookieFile)
       IN /\ cookieFile' = r.file
          /\ refreshes' = [refreshes EXCEPT !.loop = @ + 1]
          /\ calls' = [calls EXCEPT !.fileWrites = @ + (IF r.err = NoErr THEN 1 ELSE 0)]
          /\ last' = OpIn("refresh", "loop", r.err, [NoIn EXCEPT !.cause = IF r.err # NoErr THEN last.err ELSE <<>>])
          /\ cookie' = r.cookie
          /\ IF r.err # NoErr
             THEN /\ Return(r.err)
                  /\ hist' = [hist EXCEPT !.refreshFailed = TRUE, !.failedCountry = ci]
             ELSE /\ pc' = "callAfterRefresh"
                  /\ hist' = [hist EXCEPT !.refreshedHere = TRUE]
                  /\ UNCHANGED result
  /\ UNCHANGED <<cfg, autoCookie, nCountries, extraHeaders, adamID,
                 attemptedOwnedAdamFallback, ci, out, output, discRet, discCookie, src,
                 clsVars, fnVars, refVars>>

\* cm_keywords.go:139 (251)
CallAfterRefresh ==
  /\ pc = "callAfterRefresh"
  /\ DataCall("afterRefresh")
  /\ UNCHANGED <<cfg, autoCookie, nCountries, cookieFile, cookie, extraHeaders, adamID,
                 output, refreshes, src, clsVars, fnVars, refVars>>

\* cm_keywords.go:152 (264)
CallAfterFallback ==
  /\ pc = "callAfterFallback"
  /\ DataCall("afterFallback")
  /\ UNCHANGED <<cfg, autoCookie, nCountries, cookieFile, cookie, extraHeaders, adamID,
                 output, refreshes, src, clsVars, fnVars, refVars>>

\* cm_keywords.go:183 (309)
PrintOutput ==
  /\ pc = "print"
  /\ pc' = "done"
  /\ output' = <<out>>
  /\ result' = NoErr
  /\ last' = Op("printOutput", "none", NetErrResp, NoErr)
  /\ UNCHANGED <<cfg, autoCookie, nCountries, cookieFile, cookie, extraHeaders, adamID,
                 attemptedOwnedAdamFallback, ci, out, discRet, discCookie, calls,
                 refreshes, src, hist, clsVars, fnVars, refVars>>

Next ==
  \/ GetCookieFlag
  \/ LoadRefresh
  \/ GetExtraHeaders
  \/ ResolveAdamID
  \/ Discover
  \/ DiscoverRefresh
  \/ DiscoverRetry
  \/ CallCountry
  \/ RefreshInLoop
  \/ CallAfterRefresh
  \/ CallAfterFallback
  \/ PrintOutput

Spec == Init /\ [][Next]_vars

\* Every run of the command ends: the refresher and the upstream answer.
FairSpec == Spec /\ WF_vars(Next)

(***************************************************************************)
(* The classifier on its own: one response, parsed as a keyword call and   *)
(* as a campaign call parse it.                                            *)
(***************************************************************************)
ClsInit ==
  /\ clsResp \in ClassifyResponses
  /\ clsOut = NoClsOut
  /\ fnIn = NoFnIn
  /\ fnOut = NoFnOut
  /\ refresher = NoRefresher
  /\ pc = "idle"
  /\ cfg = [cmd |-> "popscore", limit |-> 0, minPop |-> 0]
  /\ autoCookie \in BOOLEAN
  /\ nCountries = 1
  /\ cookieFile = FileMissing
  /\ cookie = <<>>
  /\ extraHeaders = <<>>
  /\ adamID = 0
  /\ attemptedOwnedAdamFallback = FALSE
  /\ ci = 1
  /\ out = <<>>
  /\ result = NoErr
  /\ output = <<>>
  /\ discRet = "none"
  /\ discCookie = <<>>
  /\ calls = [data |-> 0, campaign |-> 0, fallback |-> 0, fileReads |-> 0, fileWrites |-> 0]
  /\ refreshes = [load |-> 0, resolve |-> 0, loop |-> 0, fallback |-> 0]
  /\ src = [cookie |-> "none", adam |-> "none"]
  /\ hist = NoHist
  /\ last = NoOp

\* cmKeywordPopularities: cmPostJSON then parseCMKeywordData, and what the
\* country loop does with the outcome of a first call
ClassifyKeywordCall ==
  /\ pc = "idle"
  /\ clsOut.fn = "none"
  /\ LET res == cmKeywordCall("popularities", clsResp)
     IN clsOut' = [fn |-> "keyword", items |-> res.items, err |-> res.err,
                   after |-> AfterCall("first", res.err, autoCookie, attemptedOwnedAdamFallback)]
  /\ UNCHANGED <<orchVars, clsResp, fnVars, refVars>>

\* cmCampaignsFind: cmGetJSON then parseCMCampaignData, and what the
\* discovery does with the outcome of its first call
ClassifyCampaignCall ==
  /\ pc = "idle"
  /\ clsOut.fn = "none"
  /\ LET res == cmCampaignsFind(clsResp)
     IN clsOut' = [fn |-> "campaign", items |-> res.items, err |-> res.err,
                   after |-> AfterDiscover(res.err, autoCookie)]
  /\ UNCHANGED <<orchVars, clsResp, fnVars, refVars>>

ClsNext == ClassifyKeywordCall \/ ClassifyCampaignCall

SpecClassify == ClsInit /\ [][ClsNext]_vars

(***************************************************************************)
(* The Target Resolver and the Owned-Target Discoverer on their own: the   *)
(* flags with the storefront's answer, or the answer of the campaign list. *)
(***************************************************************************)
CampNeg == JItem(13, <<"Camp N", SP>>, 0, <<>>, -7)

ResolveInputs ==
  {[NoFnIn EXCEPT !.kind = "resolve", !.f = f, !.lk = lk] :
     f \in [adamID : {0, -1, 999}, appURL : URLHints \cup URLHintsMore,
            bundleID : {<<>>, <<SP>>, <<"com.x">>}, appName : {<<>>, <<"plant app">>}],
     lk \in LookupAnswers}

DiscoverResponses ==
  {Resp(st, SuccessBody(sc[1], sc[2], d)) :
     st \in {200, 403},
     sc \in {<<"absent", <<>>>>, <<"string", <<"Success">>>>, <<"string", <<"error">>>>},
     d \in SeqsUpTo({CampNone, CampNeg, CampOwned, CampOther}, MaxItems)}
  \cup CampaignResponses \cup {NetErrResp}

DiscoverInputs ==
  {[NoFnIn EXCEPT !.kind = "discover", !.resp = r] : r \in DiscoverResponses}

\* Credentials with and without an XSRF-TOKEN-CM entry: none, one, one under
\* another letter case before a second one, an empty one before a second
\* one, parts without key or without "=" before one whose value holds "=".
RequestCookies ==
  {<<>>,
   <<"sid", "=", "0">>,
   <<"sid", "=", "0", ";", SP, "XSRF-TOKEN-CM", "=", "tokA">>,
   <<"xsrf-token-cm", SP, "=", SP, "tokA", ";", "XSRF-TOKEN-CM", "=", "tokB">>,
   <<"XSRF-TOKEN-CM", "=", ";", "XSRF-TOKEN-CM", "=", "tokB">>,
   <<"=", "x", ";", SP, ";", "novalue", ";", "XSRF-TOKEN-CM", "=", "tokA", "=", "more">>}

\* --header flags: none, the token header in lower case, the token header
\* twice under two letter cases, a cookie header, a default header with a
\* new one of empty value, the token header with an empty value.
RequestHeaderFlags ==
  {<<>>,
   <<<<"x-xsrf-token-cm", ":", SP, "tok">>>>,
   <<<<"X-XSRF-TOKEN-CM", ":", "callerA">>, <<"x-xsrf-token-cm", ":", "callerB">>>>,
   <<<<"cookie", ":", SP, "sid", "=", "9">>>>,
   <<<<"accept", ":", "text/html">>, <<"x-extra", ":">>>>,
   <<<<"X-Xsrf-Token-Cm", ":">>>>}

RequestInputs ==
  {[NoFnIn EXCEPT !.kind = "request", !.cookie = c, !.raw = raw, !.post = post] :
     c \in RequestCookies, raw \in RequestHeaderFlags, post \in BOOLEAN}

\* Items of one country: below and above a threshold, of blank name, two
\* that the order of the rows does not tell apart (B and b, both 30).
RowItems == {KwA, KwB, KwC, KwLowerB, KwBlank}

RowInputs ==
  {[NoFnIn EXCEPT !.kind = "rows", !.items = d, !.limit = l, !.minPop = m] :
     d \in SeqsUpTo(RowItems, MaxItems + 1), l \in {-1, 0, 1, 2}, m \in {0, 10, 30}}

ResInit ==
  /\ fnIn \in ResolveInputs \cup DiscoverInputs \cup RequestInputs \cup RowInputs
  /\ fnOut = NoFnOut
  /\ refresher = NoRefresher
  /\ clsResp = NetErrResp
  /\ clsOut = NoClsOut
  /\ pc = "idle"
  /\ cfg = [cmd |-> "popscore", limit |-> 0, minPop |-> 0]
  /\ autoCookie = FALSE
  /\ nCountries = 1
  /\ cookieFile = FileMissing
  /\ cookie = <<>>
  /\ extraHeaders = <<>>
  /\ adamID = 0
  /\ attemptedOwnedAdamFallback = FALSE
  /\ ci = 1
  /\ out = <<>>
  /\ result = NoErr
  /\ output = <<>>
  /\ discRet = "none"
  /\ discCookie = <<>>
  /\ calls = [data |-> 0, campaign |-> 0, fallback |-> 0, fileReads |-> 0, fileWrites |-> 0]
  /\ refreshes = [load |-> 0, resolve |-> 0, loop |-> 0, fallback |-> 0]
  /\ src = [cookie |-> "none", adam |-> "none"]
  /\ hist = NoHist
  /\ last = NoOp

\* resolveAdamIDFromFlags
ResolveFromFlags ==
  /\ pc = "idle"
  /\ fnIn.kind = "resolve"
  /\ fnOut.fn = "none"
  /\ LET r == resolveAdamIDFromFlags(fnIn.f, fnIn.lk)
     IN fnOut' = [fn |-> "resolve", id |-> r.id, name |-> <<>>, err |-> r.err, how |-> r.how,
                  hdr |-> <<>>, rows |-> <<>>]
  /\ UNCHANGED <<orchVars, clsVars, fnIn, refVars>>

\* parseAdamIDFromAppURL, given the --app-url text
ParseAppURL ==
  /\ pc = "idle"
  /\ fnIn.kind = "resolve"
  /\ fnOut.fn = "none"
  /\ LET r == parseAdamIDFromAppURL(fnIn.f.appURL)
     IN fnOut' = [fn |-> "parseURL", id |-> r.id, name |-> <<>>, err |-> r.err, how |-> "url",
                  hdr |-> <<>>, rows |-> <<>>]
  /\ UNCHANGED <<orchVars, clsVars, fnIn, refVars>>

\* cmDiscoverOwnedAdamID
DiscoverOwned ==
  /\ pc = "idle"
  /\ fnIn.kind = "discover"
  /\ fnOut.fn = "none"
  /\ LET d == cmDiscoverOwnedAdamID(fnIn.resp)
     IN fnOut' = [fn |-> "discover", id |-> d.id, name |-> d.name, err |-> d.err,
                  how |-> "none", hdr |-> <<>>, rows |-> <<>>]
  /\ UNCHANGED <<orchVars, clsVars, fnIn, refVars>>

\* getExtraHeaders, then the headers of cmPostJSON or cmGetJSON
BuildRequest ==
  /\ pc = "idle"
  /\ fnIn.kind = "request"
  /\ fnOut.fn = "none"
  /\ LET x == getExtraHeaders(fnIn.raw)
     IN \E h \in cmRequestHeaders(fnIn.post, fnIn.cookie, x.headers) :
          fnOut' = [NoFnOut EXCEPT !.fn = "request", !.err = x.err, !.hdr = h]
  /\ UNCHANGED <<orchVars, clsVars, fnIn, refVars>>

\* The rows the recommend command adds for one country, cm_keywords.go:270-306
BuildRecommendRows ==
  /\ pc = "idle"
  /\ fnIn.kind = "rows"
  /\ fnOut.fn = "none"
  /\ \E rows \in RecommendRows("US", [i \in 1..Len(fnIn.items) |-> KeywordItem(fnIn.items[i])],
                                fnIn.limit, fnIn.minPop) :
       fnOut' = [NoFnOut EXCEPT !.fn = "rows", !.rows = rows]
  /\ UNCHANGED <<orchVars, clsVars, fnIn, refVars>>

ResNext ==
  ResolveFromFlags \/ ParseAppURL \/ DiscoverOwned \/ BuildRequest \/ BuildRecommendRows

SpecResolve == ResInit /\ [][ResNext]_vars

(***************************************************************************)
(* The Credential Refresher step by step: one run started by line 135 of   *)
(* the country loop, with the terminal and the cancellation of the context *)
(* as the environment.                                                     *)
(***************************************************************************)
ExpiredAnswer == Resp(403, TextBody(<<"<html>Forbidden</html>">>, TRUE))

CtxDone == refresher.cancelledAt # "none"

CancelledErrorText(step) == <<"playwright-cli (npx) failed: ", "context canceled", step>>

\* RunE stands at line 135: the first call of the first country, made with
\* the credential and the target of the flags, was answered HTTP 403.
RefInit ==
  /\ pc = "loopRefresh"
  /\ cfg \in Configs
  /\ autoCookie = TRUE
  /\ nCountries \in 1..MaxCountries
  /\ cookieFile \in CookieFileStates
  /\ cookie = <<"sid=0">>
  /\ extraHeaders = <<>>
  /\ adamID = 999
  /\ attemptedOwnedAdamFallback = FALSE
  /\ ci = 1
  /\ out = <<>>
  /\ result = NoErr
  /\ output = <<>>
  /\ discRet = "none"
  /\ discCookie = <<>>
  /\ calls = [data |-> 1, campaign |-> 0, fallback |-> 0, fileReads |-> 0, fileWrites |-> 0]
  /\ refreshes = [load |-> 0, resolve |-> 0, loop |-> 0, fallback |-> 0]
  /\ src = [cookie |-> "flag", adam |-> "explicit"]
  /\ hist = [NoHist EXCEPT !.allNotOwned = FALSE, !.lastCalled = 1]
  /\ last = CallOp("dataCall", "first", ExpiredAnswer,
                   cmKeywordCall(Endpoint(cfg), ExpiredAnswer).err, <<"sid=0">>, 999, 1)
  /\ clsResp = NetErrResp
  /\ clsOut = NoClsOut
  /\ fnIn = NoFnIn
  /\ fnOut = NoFnOut
  /\ \E run \in RefreshRuns(1) :
       refresher = [NoRefresher EXCEPT !.pc = "open", !.run = run, !.file0 = cookieFile]

RefReturn(ck, err) == [refresher EXCEPT !.pc = "returned", !.cookie = ck, !.err = err]

\* part_000:139-154: runPlaywrightCLI(ctx, open...); exec.CommandContext
\* fails when ctx is done.
RefOpenBrowser ==
  /\ refresher.pc = "open"
  /\ refresher' =
       IF CtxDone THEN RefReturn(<<>>, CancelledErrorText("open"))
       ELSE IF refresher.run.openErr
       THEN RefReturn(<<>>, <<"playwright-cli (npx) failed: ", "open">>)
       ELSE [refresher EXCEPT !.pc = "prompt"]
  /\ UNCHANGED <<orchVars, clsVars, fnVars>>

\* Variant: the wait for the terminal also ends when ctx is done.
RefReadLine_AbortOnCancel ==
  /\ refresher.pc = "prompt"
  /\ refresher' =
       IF CtxDone THEN RefReturn(<<>>, CancelledErrorText("prompt"))
       ELSE [refresher EXCEPT !.pc = "extract", !.entered = @ + 1]
  /\ UNCHANGED <<orchVars, clsVars, fnVars>>

\* part_000:157-161: bufio.NewReader(os.Stdin).ReadString('\n') returns when
\* the terminal delivers a line (or its end); ctx is not consulted.
RefReadLine ==
  /\ refresher.pc = "prompt"
  /\ refresher' = [refresher EXCEPT !.pc = "extract", !.entered = @ + 1]
  /\ UNCHANGED <<orchVars, clsVars, fnVars>>

\* part_000:163-188: runPlaywrightCLI(extractCtx, run-code...), the parse
\* and the test for an empty cookie.
RefExtract ==
  /\ refresher.pc = "extract"
  /\ LET cookieHeader == TrimSpace(refresher.run.exported)
     IN refresher' =
          IF CtxDone THEN RefReturn(<<>>, CancelledErrorText("run-code"))
          ELSE IF refresher.run.extractErr
          THEN RefReturn(<<>>, <<"playwright-cli (npx) failed: ", "run-code">>)
          ELSE IF cookieHeader = <<>>
          THEN RefReturn(<<>>, <<"exported cookie is empty; are you logged in to app-ads.apple.com in the opened browser?">>)
          ELSE [refresher EXCEPT !.pc = "store", !.cookieHeader = cookieHeader]
  /\ UNCHANGED <<orchVars, clsVars, fnVars>>

\* part_000:190-204: the browser is closed (errors ignored) and the file
\* written.
RefStore ==
  /\ refresher.pc = "store"
  /\ IF refresher.run.writeErr
     THEN /\ refresher' = RefReturn(<<>>, <<"write cookie file: ", "permission denied">>)
          /\ UNCHANGED cookieFile
     ELSE /\ refresher' = RefReturn(refresher.cookieHeader, NoErr)
          /\ cookieFile' = FileWith(refresher.cookieHeader \o <<NL>>)
  /\ UNCHANGED <<pc, cfg, autoCookie, nCountries, cookie, extraHeaders, adamID,
                 attemptedOwnedAdamFallback, ci, out, result, output, discRet, discCookie,
                 calls, refreshes, src, hist, last, clsVars, fnVars>>

\* The context of the command is cancelled while the refresher runs.
RefCancel ==
  /\ refresher.pc \in {"open", "prompt", "extract", "store"}
  /\ ~CtxDone
  /\ refresher' = [refresher EXCEPT !.cancelledAt = refresher.pc]
  /\ UNCHANGED <<orchVars, clsVars, fnVars>>

\* cm_keywords.go:135-139 (247-251): the assignment of the refresher's
\* results and the return of its error.
RefReturnToLoop ==
  /\ pc = "loopRefresh"
  /\ refresher.pc = "returned"
  /\ refreshes' = [refreshes EXCEPT !.loop = @ + 1]
  /\ calls' = [calls EXCEPT !.fileWrites = @ + (IF refresher.err = NoErr THEN 1 ELSE 0)]
  /\ last' = OpIn("refresh", "loop", refresher.err,
                  [NoIn EXCEPT !.cause = IF refresher.err # NoErr THEN last.err ELSE <<>>])
  /\ cookie' = refresher.cookie
  /\ IF refresher.err # NoErr
     THEN /\ Return(refresher.err)
          /\ hist' = [hist EXCEPT !.refreshFailed = TRUE, !.failedCountry = ci]
     ELSE /\ pc' = "callAfterRefresh"
          /\ hist' = [hist EXCEPT !.refreshedHere = TRUE]
          /\ UNCHANGED result
  /\ UNCHANGED <<cfg, autoCookie, nCountries, cookieFile, extraHeaders, adamID,
                 attemptedOwnedAdamFallback, ci, out, output, discRet, discCookie, src,
                 clsVars, fnVars, refVars>>

RefNext ==
  \/ RefOpenBrowser
  \/ RefReadLine
  \/ RefExtract
  \/ RefStore
  \/ RefCancel
  \/ RefReturnToLoop

SpecRefresh == RefInit /\ [][RefNext]_vars

(***************************************************************************)
(* Properties.                                                             *)
(***************************************************************************)
Is2xx(r) == ~r.neterr /\ r.status >= 200 /\ r.status < 300

BodyHasSentinel(b) == Contains(ToLower(Raw(b)), NotOwnedSentinel)

BodyHasRefreshText(b) ==
  \/ Contains(ToLower(Raw(b)), RefreshCodeNeedle)
  \/ Contains(ToLower(Raw(b)), NotLoggedInNeedle)

\* The success envelope: an object whose status is omitted, empty or
\* "success" in any letter case, with a data list (or none).
IsSuccessEnvelope(b) ==
  /\ b.kind = "object"
  /\ b.dataKind # "other"
  /\ \/ b.statusKind = "absent"
     \/ b.statusKind = "string" /\ (b.status = <<>> \/ ToLower(b.status) = <<"success">>)

HasFlatFields(b) ==
  b.kind = "object" /\ (b.errorMsg # <<>> \/ b.errorCode # <<>> \/ b.internalErrorCode # <<>>)

\* The flat error envelope: error fields and nothing of the other two shapes;
\* the status field is missing or names a failure.
IsFlatErrorEnvelope(b) ==
  /\ HasFlatFields(b)
  /\ b.dataKind = "absent"
  /\ b.errors = <<>>
  /\ \/ b.statusKind = "absent"
     \/ b.statusKind = "string" /\ b.status # <<>> /\ ToLower(b.status) # <<"success">>

IsNestedErrorEnvelope(b) == b.kind = "object" /\ b.errors # <<>>

MatchesNoShape(b) ==
  ~IsSuccessEnvelope(b) /\ ~HasFlatFields(b) /\ ~IsNestedErrorEnvelope(b)

\* {errorCode:"AUTH", internalErrorCode:"refresh_required", errorMsg:...}
IsRefreshEnvelope(b) ==
  /\ b.kind = "object"
  /\ b.statusKind = "absent"
  /\ b.errorCode = <<"AUTH">>
  /\ b.internalErrorCode = <<"refresh", "_required">>
  /\ b.errorMsg # <<>>
  /\ b.dataKind = "absent"
  /\ b.errors = <<>>

ClsEndpoint == IF clsOut.fn = "keyword" THEN "popularities" ELSE "campaigns/find"

----------------------------------------------------------------------------
C2_Scenario ==
  /\ src.adam = "explicit"
  /\ src.cookie \in {"flag", "file"}
  /\ autoCookie
  /\ hist.allExpired
  /\ ~hist.refreshFailed

C2_ExpiredTwoCalls ==
  C2_Scenario =>
    /\ calls.data <= 2
    /\ ci = 1
    /\ hist.lastCalled <= 1
    /\ calls.campaign = 0
    /\ (calls.data = 1 => pc \in {"loopRefresh", "callAfterRefresh"})
    /\ (calls.data = 2 => pc = "done" /\ result = last.err /\ result # NoErr
                           /\ TotalRefreshes = 1 /\ output = <<>>)
    /\ (pc = "done" => calls.data = 2)

C2_Witness ==
  C2_Scenario /\ pc = "done" /\ calls.data = 2 /\ nCountries >= 2 /\ TotalRefreshes = 1

\* C3: the owned-target fallback is attempted at most once per command; a
\* data call classified TargetNotOwned either starts that one fallback or, when
\* it was already attempted, ends the command with the call's error; when
\* every data call is TargetNotOwned and the discovery succeeds there is one
\* fallback discovery and one re-call, then failure.
C3_FallbackOnce ==
  /\ calls.fallback <= 1
  /\ (attemptedOwnedAdamFallback <=> calls.fallback = 1)
  /\ (last.op = "dataCall" /\ last.class = "TargetNotOwned") =>
       \/ pc = "discover" /\ discRet = "fallback" /\ last.site # "afterFallback"
       \/ pc = "done" /\ result = last.err /\ calls.fallback = 1
  /\ (pc = "done" /\ calls.data >= 1 /\ hist.allNotOwned /\ ~hist.fallbackFailed) =>
       /\ calls.data = 2
       /\ calls.fallback = 1
       /\ last.op = "dataCall" /\ last.site = "afterFallback"
       /\ result = last.err /\ result # NoErr

C3_Witness ==
  /\ pc = "done"
  /\ last.op = "dataCall" /\ last.class = "TargetNotOwned"
  /\ last.req.country = 2
  /\ calls.fallback = 1
  /\ result = last.err

C5_RefreshEnvelopeExpired ==
  (autoCookie /\ last.op = "dataCall" /\ last.site = "first" /\ ~last.resp.neterr
     /\ IsRefreshEnvelope(last.resp.body)) =>
     /\ last.class = "CredentialExpired"
     /\ pc = "loopRefresh"

\* C6: a 2xx flat error envelope is an error carrying its three fields,
\* never a success, for the keyword parser and for the campaign parser.
C6_FlatEnvelopeIsError ==
  (clsOut.fn # "none" /\ Is2xx(clsResp) /\ IsFlatErrorEnvelope(clsResp.body)) =>
     clsOut.err = FlatErrorText(ClsEndpoint, UnmarshalErrorResponse(clsResp.body))

\* C7: a 2xx success envelope whose status is omitted, empty or "success" in
\* any letter case is Success with the items of its data list in their order.
C7_SuccessEnvelope ==
  (clsOut.fn = "keyword" /\ Is2xx(clsResp) /\ IsSuccessEnvelope(clsResp.body)) =>
     /\ clsOut.err = NoErr
     /\ Classify(clsOut.err) = "Success"
     /\ Len(clsOut.items) = Len(clsResp.body.data)
     /\ \A i \in 1..Len(clsOut.items) :
          /\ clsOut.items[i].Name = clsResp.body.data[i].name
          /\ clsOut.items[i].Popularity = clsResp.body.data[i].popularity
          /\ clsOut.items[i].MatchType = clsResp.body.data[i].matchType

C7_Witness ==
  /\ clsOut.fn = "keyword"
  /\ Is2xx(clsResp)
  /\ clsResp.body.statusKind = "string" /\ clsResp.body.status = <<"SUCCESS">>
  /\ clsOut.err = NoErr
  /\ Len(clsOut.items) = 2
  /\ clsOut.items[1].Name = <<"B">> /\ clsOut.items[2].Name = <<"Plant App">>

C9_ExactlyOneClass ==
  clsOut.fn # "none" =>
     /\ ~(isCMRefreshError(clsOut.err) /\ isCMNoUserOwnedAppsError(clsOut.err))
     /\ (clsOut.err = NoErr <=> Classify(clsOut.err) = "Success")
     /\ (Contains(ToLower(clsOut.err), NotOwnedSentinel) =>
           /\ Classify(clsOut.err) = "TargetNotOwned"
           /\ ~isCMRefreshError(clsOut.err)
           /\ clsOut.after # "refresh")

C9_Witness ==
  /\ clsOut.fn = "keyword"
  /\ Contains(ToLower(clsOut.err), NotOwnedSentinel)
  /\ Contains(ToLower(clsOut.err), RefreshCodeNeedle)
  /\ Contains(ToLower(clsOut.err), NotLoggedInNeedle)
  /\ Contains(ToLower(clsOut.err), Http403Needle)
  /\ Classify(clsOut.err) = "TargetNotOwned"

----------------------------------------------------------------------------
\* The highest-priority hint that is present in the flags f.
FirstPresent(f) ==
  IF f.adamID > 0 THEN "explicit"
  ELSE IF TrimSpace(f.appURL.text) # <<>> THEN "url"
  ELSE IF TrimSpace(f.bundleID) # <<>> THEN "bundle"
  ELSE IF TrimSpace(f.appName) # <<>> THEN "name"
  ELSE "none"

\* f without the hints of lower priority than its first present one.
OnlyFirstPresent(f) ==
  LET p == FirstPresent(f)
  IN [adamID |-> IF p = "explicit" THEN f.adamID ELSE 0,
      appURL |-> IF p = "url" THEN f.appURL ELSE NoFlags.appURL,
      bundleID |-> IF p = "bundle" THEN f.bundleID ELSE <<>>,
      appName |-> IF p = "name" THEN f.appName ELSE <<>>]

\* C11: the resolver tries explicit id (> 0), URL hint, bundle-id hint,
\* app-name hint in this order; the first hint present decides the result,
\* which does not depend on the hints below it (nor on the storefront when
\* the id or the URL decides), and NotProvided is returned exactly when no
\* hint is present.
C11_ResolverPriority ==
  fnOut.fn = "resolve" =>
    LET f == fnIn.f
        p == FirstPresent(f)
        alone == resolveAdamIDFromFlags(OnlyFirstPresent(f), fnIn.lk)
    IN /\ fnOut.how = p
       /\ fnOut.id = alone.id /\ fnOut.err = alone.err
       /\ (p \in {"explicit", "url", "none"} =>
             \A lk \in LookupAnswers :
               LET r == resolveAdamIDFromFlags(f, lk)
               IN r.id = fnOut.id /\ r.err = fnOut.err)
       /\ (p = "explicit" => fnOut.id = f.adamID /\ fnOut.err = NoErr)
       /\ (p = "url" =>
             \/ fnOut.err = NoErr /\ fnOut.id = parseAdamIDFromAppURL(f.appURL).id
             \/ fnOut.err # NoErr /\ parseAdamIDFromAppURL(f.appURL).err # NoErr)
       /\ (IsAdamIDNotProvided(fnOut.err) <=> p = "none")
       /\ (p = "none" <=> f.adamID <= 0 /\ TrimSpace(f.appURL.text) = <<>>
                            /\ TrimSpace(f.bundleID) = <<>> /\ TrimSpace(f.appName) = <<>>)

C11_Witness ==
  /\ fnOut.fn = "resolve"
  /\ fnIn.f.adamID <= 0
  /\ parseAdamIDFromAppURL(fnIn.f.appURL).id = 123456
  /\ TrimSpace(fnIn.f.bundleID) # <<>>
  /\ lookupAdamIDByBundleID(TrimSpace(fnIn.f.bundleID), fnIn.lk).id = 555
  /\ fnIn.f.appName # <<>>
  /\ fnOut.id = 123456 /\ fnOut.err = NoErr

\* The ids the four places of a parsed URL hint yield, in the order tried.
URLCandidates(u) ==
  LET q == ParseIntText(TrimSpace(u.queryID))
  IN <<parseAdamIDFromText(u.path), parseAdamIDFromText(u.rawPath),
       IF q.ok /\ q.n > 0 THEN q.n ELSE 0, parseAdamIDFromText(u.text)>>

FirstPositive(c) ==
  IF \E i \in 1..Len(c) : c[i] > 0
  THEN c[CHOOSE i \in 1..Len(c) : c[i] > 0 /\ \A j \in 1..(i - 1) : c[j] <= 0]
  ELSE 0

IsBarePositive(u) ==
  ParseIntText(TrimSpace(u.text)).ok /\ ParseIntText(TrimSpace(u.text)).n > 0

\* C12 (as stated): a bare positive integer is returned directly; otherwise
\* the result is the first positive id among path, raw path, query parameter
\* id and raw text, and an error when none is positive; an id returned is > 0.
C12_FirstPositiveID ==
  fnOut.fn = "parseURL" =>
    LET u == fnIn.f.appURL
    IN /\ (fnOut.err = NoErr => fnOut.id > 0)
       /\ IF IsBarePositive(u)
          THEN fnOut.err = NoErr /\ fnOut.id = ParseIntText(TrimSpace(u.text)).n
          ELSE IF FirstPositive(URLCandidates(u)) > 0
          THEN fnOut.err = NoErr /\ fnOut.id = FirstPositive(URLCandidates(u))
          ELSE fnOut.err # NoErr

\* C12 (amended): as stated for a hint that url.Parse accepts; a hint that is
\* no bare positive integer and that url.Parse rejects is an error, whatever
\* ids its text holds; so is a blank hint.
C12_FirstPositiveIDOfParsedURL ==
  fnOut.fn = "parseURL" =>
    LET u == fnIn.f.appURL
    IN /\ (fnOut.err = NoErr => fnOut.id > 0)
       /\ (fnOut.err # NoErr => fnOut.id = 0)
       /\ IF IsBarePositive(u)
          THEN fnOut.err = NoErr /\ fnOut.id = ParseIntText(TrimSpace(u.text)).n
          ELSE IF TrimSpace(u.text) = <<>> THEN fnOut.err = <<"empty value">>
          ELSE IF u.urlErr THEN fnOut.err = <<"invalid URL: ">> \o u.text
          ELSE IF FirstPositive(URLCandidates(u)) > 0
          THEN fnOut.err = NoErr /\ fnOut.id = FirstPositive(URLCandidates(u))
          ELSE fnOut.err = <<"could not find adam-id in ">> \o u.text

C12_Witness ==
  /\ fnOut.fn = "parseURL"
  /\ ~fnIn.f.appURL.urlErr
  /\ URLCandidates(fnIn.f.appURL) = <<0, 12345, 555, 12345>>
  /\ fnOut.id = 12345

\* C13: once the fallback discovery has returned an id d > 0 other than the
\* target t of the rejected call, the working target is d: the re-call for
\* the same country and every data call of a later country carry d, not t.
C13_SwitchedTargetUsed ==
  /\ (pc = "callAfterFallback" =>
        /\ last.op = "campaignCall"
        /\ adamID = cmDiscoverOwnedAdamID(last.resp).id
        /\ adamID > 0
        /\ ci = hist.lastCalled)
  /\ (hist.switchedTo > 0 =>
        /\ hist.switchedTo # hist.switchedFrom
        /\ calls.fallback = 1
        /\ adamID = hist.switchedTo
        /\ (last.op = "dataCall" =>
              /\ last.req.adamID = hist.switchedTo
              /\ last.req.adamID # hist.switchedFrom))

C13_Witness ==
  /\ hist.switchedFrom = 999 /\ hist.switchedTo = 111
  /\ last.op = "dataCall" /\ last.site = "first"
  /\ last.req.country = 2
  /\ last.req.adamID = 111

\* C14: after a refresher run has succeeded -- at the credential load, in the
\* country loop or inside a discovery -- every later upstream call carries the
\* cookie that run returned, in this country and in every later one.
C14_RefreshedCredentialUsed ==
  (TotalRefreshes >= 1 /\ ~hist.refreshFailed) =>
    LET fresh == FreshCookie(TotalRefreshes)
    IN /\ (last.op \in {"dataCall", "campaignCall"} => last.req.cookie = fresh)
       /\ (pc \in {"call", "callAfterRefresh", "callAfterFallback", "loopRefresh", "print"} =>
             cookie = fresh)
       /\ (pc \in {"discover", "discRefresh", "discRetry"} => discCookie = fresh)
       /\ \A k \in 1..(TotalRefreshes - 1) : FreshCookie(k) # fresh

C14_Witness ==
  /\ refreshes.fallback = 1 /\ refreshes.loop = 0 /\ refreshes.load = 0
  /\ last.op = "dataCall" /\ last.site = "first"
  /\ last.req.country = 2
  /\ last.req.cookie = FreshCookie(1)
  /\ src.cookie \in {"flag", "file"}

\* After getCookieFlag's load (last.op = "getCookieFlag"): whether the file
\* was read, the value chosen between flag and file, the value after the
\* "cookie:" prefix is stripped.
FileWasRead == calls.fileReads = 1

ChosenCookie ==
  IF TrimSpace(last.in.flag) # <<>> THEN TrimSpace(last.in.flag)
  ELSE IF FileWasRead /\ cookieFile.state = "ok" THEN TrimSpace(cookieFile.content)
  ELSE <<>>

StrippedCookie ==
  IF ChosenCookie # <<>> /\ ToLower(<<ChosenCookie[1]>>) = <<"cookie:">>
  THEN TrimSpace(Tail(ChosenCookie))
  ELSE ChosenCookie

CredentialMissingText == <<"--cookie (or --cookie-file) is required for this command">>

\* C15: the explicit value wins over the file, which is read only when the
\* trimmed explicit value is empty; a leading "cookie:" in any letter case is
\* stripped from the value chosen; a missing file is no error; any other
\* read error is returned.
C15_CredentialLoad ==
  last.op = "getCookieFlag" =>
    /\ (FileWasRead <=> TrimSpace(last.in.flag) = <<>> /\ ~last.in.fileFlagBlank)
    /\ (TrimSpace(last.in.flag) # <<>> => ~FileWasRead)
    /\ IF FileWasRead /\ cookieFile.state = "unreadable"
       THEN /\ pc = "done"
            /\ result = last.err
            /\ result \notin {NoErr, CredentialMissingText}
       ELSE IF StrippedCookie # <<>>
       THEN /\ pc = "getHeaders"
            /\ last.err = NoErr
            /\ cookie = StrippedCookie
            /\ ToLower(<<cookie[1]>>) # <<"cookie:">> \/ ToLower(<<ChosenCookie[1]>>) = <<"cookie:">>
       ELSE /\ last.err \in {NoErr, CredentialMissingText}
            /\ (last.err = NoErr <=> autoCookie)
            /\ (cookieFile.state = "missing" /\ FileWasRead /\ autoCookie => pc = "loadRefresh")

C15_Witness ==
  /\ last.op = "getCookieFlag"
  /\ last.in.flag = <<"Cookie:", "sid=0", SP>>
  /\ ~last.in.fileFlagBlank
  /\ cookieFile.state = "ok" /\ TrimSpace(cookieFile.content) # <<>>
  /\ ~FileWasRead
  /\ cookie = <<"sid=0">>

\* C16: when the load finds no credential and auto-refresh is off, the
\* command ends with the credential-missing error and nothing else was done:
\* no header parsing, no target resolution, no discovery, no data call.
C16_CredentialMissing ==
  /\ (~autoCookie /\ last.op = "getCookieFlag" /\ StrippedCookie = <<>>
        /\ ~(FileWasRead /\ cookieFile.state = "unreadable")) =>
        /\ pc = "done"
        /\ result = CredentialMissingText
  /\ (result = CredentialMissingText) =>
        /\ pc = "done"
        /\ ~autoCookie
        /\ last.op = "getCookieFlag"
        /\ calls.data = 0 /\ calls.campaign = 0 /\ calls.fallback = 0
        /\ TotalRefreshes = 0
        /\ adamID = 0 /\ src.adam = "none" /\ extraHeaders = <<>>
        /\ hist.lastCalled = 0
        /\ output = <<>>

C16_Witness ==
  /\ ~autoCookie
  /\ last.op = "getCookieFlag"
  /\ last.in.flag = <<"cookie:", SP>>
  /\ ChosenCookie # <<>> /\ StrippedCookie = <<>>
  /\ result = CredentialMissingText

\* err is the tail of the text of wrapped (fmt.Errorf("...: %w", err)), or
\* wrapped itself.
EndsWith(wrapped, err) ==
  Len(wrapped) >= Len(err)
    /\ SubSeq(wrapped, Len(wrapped) - Len(err) + 1, Len(wrapped)) = err

\* C17: with auto-refresh off the refresher never runs, and a call
\* classified CredentialExpired ends the command with that call's error: as
\* it is for a data call, wrapped by the caller of the discovery for a
\* campaign-list call.
C17_NoRefreshWhenDisabled ==
  ~autoCookie =>
    /\ TotalRefreshes = 0
    /\ calls.fileWrites = 0
    /\ pc \notin {"loadRefresh", "loopRefresh", "discRefresh", "callAfterRefresh", "discRetry"}
    /\ last.op # "refresh"
    /\ (last.op = "dataCall" /\ last.class = "CredentialExpired") =>
          pc = "done" /\ result = last.err
    /\ (last.op = "campaignCall" /\ last.class = "CredentialExpired") =>
          /\ pc = "done"
          /\ EndsWith(result, last.err)
          /\ Classify(result) = "CredentialExpired"

C17_Witness ==
  /\ ~autoCookie
  /\ last.op = "campaignCall" /\ last.class = "CredentialExpired"
  /\ discRet = "fallback"
  /\ pc = "done"
  /\ result # last.err

\* C18: a refresher run that fails ends the command; started by a
\* CredentialExpired data call it ends it with the refresher's error, and the
\* failed run is the last operation: no re-call, no fallback, no later
\* country, no output.
C18_RefreshFailureEndsCommand ==
  /\ (last.op = "refresh" /\ last.err # NoErr) <=> hist.refreshFailed
  /\ hist.refreshFailed =>
        /\ pc = "done"
        /\ output = <<>>
        /\ result # NoErr
        /\ (last.site = "loop" =>
              /\ result = last.err
              /\ Classify(last.in.cause) = "CredentialExpired"
              /\ hist.lastCalled = ci
              /\ hist.failedCountry = ci
              /\ refreshes.loop >= 1)

C18_Witness ==
  /\ last.op = "refresh" /\ last.site = "loop" /\ last.err # NoErr
  /\ pc = "done"
  /\ nCountries >= 2 /\ ci = 1
  /\ ~attemptedOwnedAdamFallback
  /\ calls.data = 1

\* C19: when the refresh started by a CredentialExpired call fails, or the
\* discovery started by a TargetNotOwned call fails, the error returned names
\* both the rejected call and the failure of the refresh or discovery.
C19_WrappedBothCauses ==
  /\ (last.op = "refresh" /\ last.site = "loop" /\ last.err # NoErr) =>
        /\ Contains(result, last.err)
        /\ Contains(result, last.in.cause) \/ Classify(result) = "CredentialExpired"
  /\ hist.fallbackFailed =>
        /\ Contains(result, <<" is not accessible for this Apple Ads account, and auto-discovery failed: ">>)
        /\ EndsWith(result, last.err)

\* C20: the discoverer returns the target and the trimmed name of the first
\* campaign of the list whose target is > 0; it fails with the no-owned-
\* target error exactly when the list call succeeded and no campaign has a
\* target > 0; an error of the list call is returned as it is.
C20_DiscoverFirstOwned ==
  fnOut.fn = "discover" =>
    LET c == cmCampaignsFind(fnIn.resp)
        data == fnIn.resp.body.data
        owned == {k \in 1..Len(data) : data[k].adamId > 0}
    IN /\ (c.err # NoErr => fnOut.err = c.err /\ fnOut.id = 0 /\ fnOut.name = <<>>)
       /\ (c.err = NoErr <=> Is2xx(fnIn.resp) /\ IsSuccessEnvelope(fnIn.resp.body))
       /\ (c.err = NoErr /\ owned # {} =>
             LET k == CHOOSE i \in owned : \A j \in owned : i <= j
             IN /\ fnOut.err = NoErr
                /\ fnOut.id = data[k].adamId
                /\ fnOut.name = TrimSpace(data[k].name))
       /\ (fnOut.err = <<"no owned adam-id found in Apple Ads campaigns">>
             <=> c.err = NoErr /\ owned = {})

C20_Witness ==
  /\ fnOut.fn = "discover"
  /\ fnIn.resp.body.data = <<CampNone, CampOwned, CampOther>>
  /\ fnOut.id = 111
  /\ fnOut.name = <<"Camp A">>

----------------------------------------------------------------------------
\* The resolver returned NotProvided and the discovery it led to is not over.
InResolveDiscovery ==
  discRet = "resolve" /\ pc \in {"discover", "discRefresh", "discRetry"}

\* What C21 says of the discovery itself: started by NotProvided before any
\* data call, one campaign-list call and at most one more after a refresh,
\* success installs the id found, failure ends the command without data call.
C21_DiscoveryBeforeCalls ==
  /\ (last.op = "resolve" /\ IsAdamIDNotProvided(last.err)) =>
        /\ pc = "discover" /\ discRet = "resolve"
        /\ calls.data = 0 /\ calls.campaign = 0
  /\ InResolveDiscovery => calls.data = 0
  /\ (discRet = "resolve") =>
        /\ calls.campaign <= 2
        /\ refreshes.resolve <= 1
        /\ (calls.campaign = 2 => refreshes.resolve = 1)
        /\ calls.fallback = 0
  /\ (discRet = "resolve" /\ last.op = "campaignCall" /\ last.err = NoErr) =>
        /\ pc = "call" /\ ci = 1 /\ calls.data = 0
        /\ adamID = cmDiscoverOwnedAdamID(last.resp).id
        /\ adamID > 0
        /\ hist.discoveredID = adamID
  /\ (discRet = "resolve" /\ pc = "done" /\ hist.discoveredID = 0) =>
        /\ result # NoErr
        /\ calls.data = 0
        /\ hist.lastCalled = 0
        /\ output = <<>>

\* C21 (as stated): NotProvided starts one discovery before any data call;
\* the id it finds is the working target for all countries: every data call
\* carries it; its failure ends the command with no data call issued.
C21_DiscoveredTargetForAllCountries ==
  /\ C21_DiscoveryBeforeCalls
  /\ hist.discoveredID > 0 =>
        /\ (last.op = "dataCall" => last.req.adamID = hist.discoveredID)
        /\ (pc \in {"call", "loopRefresh", "callAfterRefresh", "callAfterFallback", "print"} =>
              adamID = hist.discoveredID)

\* C21 (amended): the id found is the working target the country loop starts
\* with, and every data call carries it until an owned-target fallback
\* switches the target; from then on the calls carry the fallback's id.
C21_DiscoveredTargetUntilSwitch ==
  /\ C21_DiscoveryBeforeCalls
  /\ hist.discoveredID > 0 =>
        LET working == IF hist.switchedTo > 0 THEN hist.switchedTo ELSE hist.discoveredID
        IN /\ (last.op = "dataCall" => last.req.adamID = working)
           /\ (pc \in {"call", "loopRefresh", "callAfterRefresh", "callAfterFallback", "print"} =>
                 adamID = working)
           /\ (hist.switchedTo > 0 => hist.switchedFrom = hist.discoveredID)

C21_Witness ==
  /\ hist.discoveredID = 111
  /\ refreshes.resolve = 1 /\ calls.campaign = 2
  /\ hist.switchedTo = 0
  /\ last.op = "dataCall" /\ last.req.country = 2 /\ last.req.adamID = 111

\* C22 (as stated): whenever the resolver fails to produce an id -- no hint
\* given, or a URL, bundle-id or app-name hint that could not be resolved --
\* the discovery is run, and an error is surfaced only if it failed too.
C22_DiscoveryOnAnyResolutionFailure ==
  (last.op = "resolve" /\ last.err # NoErr) =>
     /\ pc = "discover"
     /\ discRet = "resolve"
     /\ result = NoErr

AutoResolveText == <<"auto-resolve adam-id from Apple Ads account: ">>

\* C22 (amended): the discovery is run exactly when no hint was given
\* (NotProvided), and then an error is surfaced only if the discovery failed;
\* a hint that could not be resolved ends the command at once with the
\* resolver's error: no campaign-list call, no data call.
C22_DiscoveryOnlyOnNotProvided ==
  /\ (last.op = "resolve" /\ last.err # NoErr) =>
        IF last.site = "none"
        THEN /\ IsAdamIDNotProvided(last.err)
             /\ pc = "discover" /\ discRet = "resolve"
             /\ result = NoErr
        ELSE /\ ~IsAdamIDNotProvided(last.err)
             /\ last.site \in {"url", "bundle", "name"}
             /\ pc = "done"
             /\ result = last.err
             /\ discRet = "none"
             /\ calls.campaign = 0 /\ calls.data = 0
             /\ output = <<>>
  /\ ~Contains(result, errAdamIDNotProvided)
  /\ (discRet = "resolve" /\ pc = "done" /\ hist.discoveredID = 0) =>
        /\ last.op \in {"campaignCall", "refresh"}
        /\ last.err # NoErr
        /\ result = AutoResolveText \o last.err
        /\ calls.campaign >= 1

C22_Witness ==
  /\ last.op = "resolve" /\ last.site = "bundle" /\ last.err # NoErr
  /\ pc = "done"
  /\ result = last.err
  /\ calls.campaign = 0

----------------------------------------------------------------------------
\* The values the caller gave for the header name, under any letter case.
CallerValues(headers, name) ==
  {headers[k][2] : k \in {j \in 1..Len(headers) : ToLower(headers[j][1]) = ToLower(name)}}

\* The entries key=value of a credential, in their order: the parts between
\* ";" that hold "=" after a key.
CredentialEntries(c) ==
  LET parts == Split(c, ";")
      entry(p) == LET t == TrimSpace(p)
                      i == IndexOf(t, "=")
                  IN <<TrimSpace(SubSeq(t, 1, i)), TrimSpace(SubSeq(t, i + 2, Len(t)))>>
  IN [k \in 1..Len(SelectSeq(parts, LAMBDA p : IndexOf(TrimSpace(p), "=") > 0)) |->
        entry(SelectSeq(parts, LAMBDA p : IndexOf(TrimSpace(p), "=") > 0)[k])]

\* The value of the first XSRF-TOKEN-CM entry of the credential (<<>>: no
\* entry, or an entry without value).
CredentialToken(c) ==
  LET es == CredentialEntries(c)
      hits == {k \in 1..Len(es) : ToLower(es[k][1]) = <<"xsrf-token-cm">>}
  IN IF hits = {} THEN <<>> ELSE es[CHOOSE k \in hits : \A j \in hits : k <= j][2]

XsrfHeader == <<"X-XSRF-TOKEN-CM">>

\* C23: the X-XSRF-TOKEN-CM header of a request is the caller's value when
\* the caller gave that header under any letter case, else the token of the
\* credential's XSRF-TOKEN-CM entry when there is one, else absent; every
\* header the caller gave is in the request with the caller's value, in
\* place of the default of that name, the Cookie header included; a default
\* the caller did not give keeps its value.
C23_RequestHeaders ==
  (fnOut.fn = "request" /\ fnOut.err = NoErr) =>
    LET extra == getExtraHeaders(fnIn.raw).headers
        h == fnOut.hdr
        defaults == DefaultHeaders(fnIn.post, fnIn.cookie)
    IN /\ IF CallerValues(extra, XsrfHeader) # {}
          THEN HeaderHas(h, XsrfHeader) /\ HeaderGet(h, XsrfHeader) \in CallerValues(extra, XsrfHeader)
          ELSE IF CredentialToken(fnIn.cookie) # <<>>
          THEN HeaderHas(h, XsrfHeader) /\ HeaderGet(h, XsrfHeader) = CredentialToken(fnIn.cookie)
          ELSE ~HeaderHas(h, XsrfHeader)
       /\ \A k \in 1..Len(extra) :
            /\ HeaderHas(h, extra[k][1])
            /\ HeaderGet(h, extra[k][1]) \in CallerValues(extra, extra[k][1])
       /\ \A k \in 1..Len(defaults) :
            /\ HeaderHas(h, defaults[k][1])
            /\ (CallerValues(extra, defaults[k][1]) = {} =>
                  HeaderGet(h, defaults[k][1]) = defaults[k][2])
       /\ (CallerValues(extra, <<"Cookie">>) = {} => HeaderGet(h, <<"Cookie">>) = fnIn.cookie)

C23_Witness ==
  /\ fnOut.fn = "request"
  /\ CredentialToken(fnIn.cookie) = <<"tokA">>
  /\ CallerValues(getExtraHeaders(fnIn.raw).headers, XsrfHeader) = {<<"callerA">>, <<"callerB">>}
  /\ HeaderGet(fnOut.hdr, XsrfHeader) = <<"callerB">>
  /\ HeaderGet(fnOut.hdr, <<"Cookie">>) = fnIn.cookie


----------------------------------------------------------------------------
\* The rows of country c (1-based) in the popscore output so far.
RowOf(c, k) == out[(c - 1) * Len(Keywords) + k]

\* The items of a response body whose name is the keyword once both are
\* trimmed and lower-cased.
Matching(data, kw) ==
  {i \in 1..Len(data) : ToLower(TrimSpace(data[i].name)) = ToLower(TrimSpace(kw))}

C24_RowsSoFar ==
  cfg.cmd = "popscore" =>
    /\ Len(out) = (ci - 1) * Len(Keywords)
    /\ \A c \in 1..(ci - 1), k \in 1..Len(Keywords) :
         /\ RowOf(c, k).Country = CountryList[c]
         /\ RowOf(c, k).Keyword = Keywords[k]
    /\ (last.op = "dataCall" /\ last.err = NoErr) =>
         /\ ci = last.req.country + 1
         /\ \A k \in 1..Len(Keywords) :
              LET row == RowOf(last.req.country, k)
                  data == last.resp.body.data
                  m == Matching(data, Keywords[k])
              IN /\ row.Found <=> m # {}
                 /\ row.Found =>
                      \E i \in m :
                        /\ row.HasPopularity /\ row.Popularity = data[i].popularity
                        /\ IF TrimSpace(data[i].matchType) # <<>>
                           THEN row.HasMatchType /\ row.MatchType = TrimSpace(data[i].matchType)
                           ELSE ~row.HasMatchType
                 /\ ~row.Found => ~row.HasPopularity /\ ~row.HasMatchType
    /\ (pc = "done" /\ result = NoErr) =>
         /\ output = <<out>>
         /\ Len(out) = nCountries * Len(Keywords)

\* A row, once added, stays as it is and where it is.
C24_RowsKept ==
  /\ Len(out') >= Len(out)
  /\ \A k \in 1..Len(out) : out'[k] = out[k]

\* C24: a successful popscore run outputs one row per (country, keyword), by
\* country then by keyword in input order; a row is found exactly when the
\* country's response holds an item whose trimmed lower-cased name is the
\* trimmed lower-cased keyword, and then carries that item's popularity and
\* its match type when not blank; a row not found carries neither.
C24_PopscoreRows == [](C24_RowsSoFar) /\ [][C24_RowsKept]_vars

C24_Witness ==
  /\ cfg.cmd = "popscore"
  /\ pc = "done" /\ result = NoErr
  /\ Len(output[1]) = 6
  /\ ~output[1][1].Found /\ ~output[1][1].HasPopularity
  /\ output[1][2].Found /\ output[1][2].Popularity = 5 /\ output[1][2].MatchType = <<"BROAD">>
  /\ output[1][3].Found /\ output[1][3].Popularity = 20 /\ ~output[1][3].HasMatchType
  /\ output[1][4].Country = "GB" /\ output[1][4].Keyword = <<"plant app">>
  /\ output[1][4].Found /\ output[1][4].Popularity = 7 /\ ~output[1][4].HasMatchType
  /\ ~output[1][5].Found

----------------------------------------------------------------------------
\* a comes strictly before b: higher popularity, or the same popularity and
\* a lower-cased term that is less.
RankedBefore(popA, termA, popB, termB) ==
  popA > popB \/ (popA = popB /\ TextLess(ToLower(termA), ToLower(termB)))

\* C25: the rows of a country are the items with popularity >= the threshold
\* and a name that is not blank, by descending popularity then ascending
\* lower-cased term, cut to the first limit ones (50 for a limit <= 0) and
\* ranked 1..k in that order; the threshold comes before the limit: items
\* [{A,5},{B,30},{C,20}], limit 2, threshold 10 give [B rank 1, C rank 2].
C25_RecommendRows ==
  fnOut.fn = "rows" =>
    LET data == fnIn.items
        rows == fnOut.rows
        kept == {i \in 1..Len(data) :
                   data[i].popularity >= fnIn.minPop /\ TrimSpace(data[i].name) # <<>>}
        lim == IF fnIn.limit <= 0 THEN 50 ELSE fnIn.limit
        n == IF Cardinality(kept) < lim THEN Cardinality(kept) ELSE lim
    IN /\ Len(rows) = n
       /\ \A k \in 1..n : rows[k].Rank = k
       /\ \A k \in 1..(n - 1) :
            ~RankedBefore(rows[k + 1].Popularity, rows[k + 1].Term,
                          rows[k].Popularity, rows[k].Term)
       /\ \E f \in [1..n -> kept] :
            /\ \A j, k \in 1..n : j # k => f[j] # f[k]
            /\ \A k \in 1..n :
                 /\ rows[k].Term = data[f[k]].name
                 /\ rows[k].Popularity = data[f[k]].popularity
                 /\ rows[k].HasMatchType = (TrimSpace(data[f[k]].matchType) # <<>>)
                 /\ rows[k].MatchType = TrimSpace(data[f[k]].matchType)
            /\ \A i \in kept \ {f[k] : k \in 1..n} :
                 \A k \in 1..n :
                   ~RankedBefore(data[i].popularity, data[i].name,
                                 rows[k].Popularity, rows[k].Term)
       /\ (data = <<KwA, KwB, KwC>> /\ fnIn.limit = 2 /\ fnIn.minPop = 10) =>
            /\ Len(rows) = 2
            /\ rows[1].Term = <<"B">> /\ rows[1].Rank = 1
            /\ rows[2].Term = <<"C">> /\ rows[2].Rank = 2

C25_Witness ==
  /\ fnOut.fn = "rows"
  /\ fnIn.items = <<KwA, KwB, KwC>> /\ fnIn.limit = 2 /\ fnIn.minPop = 10
  /\ Len(fnOut.rows) = 2
  /\ fnOut.rows[1].Term = <<"B">> /\ fnOut.rows[2].Term = <<"C">>

(***************************************************************************)
(* C26: a data call answered CredentialExpired is refreshed and retried.   *)
(***************************************************************************)
\* No refresher run has succeeded yet for the call of the current country.
NoRefreshForThisCall == ~hist.refreshedHere

\* C26 (as stated): whenever the last data call was classified
\* CredentialExpired, --auto-cookie is set and no refresh has yet been
\* performed for that country's call, the command is about to run the
\* refresher (after which it repeats the call); the re-call of line 152 after
\* a target fallback is included.
C26_ExpiredCallIsRefreshed ==
  (/\ last.op = "dataCall"
   /\ last.class = "CredentialExpired"
   /\ autoCookie
   /\ NoRefreshForThisCall)
    => pc = "loopRefresh"

\* The same for the calls of lines 132 and 139 only: it is the re-call of
\* line 152 that the code does not refresh.
C26_ExpiredFirstCallIsRefreshed ==
  (/\ last.op = "dataCall"
   /\ last.site # "afterFallback"
   /\ last.class = "CredentialExpired"
   /\ autoCookie
   /\ NoRefreshForThisCall)
    => pc = "loopRefresh"

\* The refresher run that follows is followed by the repeated call.
C26_RefreshedCallIsRetried ==
  [][(pc = "loopRefresh" /\ pc' # "loopRefresh")
       => \/ pc' = "callAfterRefresh" /\ last'.err = NoErr
          \/ pc' = "done" /\ last'.err # NoErr]_vars

\* The re-call after a fallback answered CredentialExpired with no refresh in
\* the iteration: RunE returned the error.
C26_ExpiredAfterFallback ==
  /\ last.op = "dataCall" /\ last.site = "afterFallback"
  /\ last.class = "CredentialExpired"
  /\ autoCookie /\ NoRefreshForThisCall
  /\ pc = "done" /\ result = last.err

(***************************************************************************)
(* C27: the nested error envelope.                                         *)
(***************************************************************************)
\* A 2xx answer whose body is an object with a status that is a string other
\* than "" and "success", a list of at least one sub-error and none of the
\* flat error fields.
NestedErrorEnvelope(r) ==
  /\ ~r.neterr
  /\ r.status >= 200 /\ r.status < 300
  /\ r.body.kind = "object"
  /\ r.body.statusKind = "string"
  /\ r.body.status # <<>>
  /\ ~EqualFold(r.body.status, <<"success">>)
  /\ Len(r.body.errors) > 0
  /\ r.body.errorMsg = <<>> /\ r.body.errorCode = <<>> /\ r.body.internalErrorCode = <<>>

\* C27: the error of a nested error envelope is built from the message code
\* and the message of the first sub-error only, and is classified by the
\* substring rules of a flat error: as the flat error with the same code and
\* message is, TargetNotOwned when the text holds the sentinel, else
\* CredentialExpired when it holds one of the refresh needles, else
\* OtherError.
C27_NestedErrorFromFirstSubError ==
  (clsOut.fn # "none" /\ NestedErrorEnvelope(clsResp)) =>
    LET first == clsResp.body.errors[1]
        text == <<"cm ", ClsEndpoint, " error (">> \o TrimSpace(first.messageCode)
                  \o <<"): ">> \o TrimSpace(first.message)
        flat == FlatErrorText(ClsEndpoint,
                              [ErrorCode |-> first.messageCode, InternalErrorCode |-> <<>>,
                               ErrorMsg |-> first.message])
        s == ToLower(text)
        class == Classify(clsOut.err)
    IN /\ clsOut.err = text
       /\ clsOut.items = <<>>
       /\ class \in {"CredentialExpired", "TargetNotOwned", "OtherError"}
       /\ class = Classify(flat)
       /\ class = IF Contains(s, NotOwnedSentinel) THEN "TargetNotOwned"
                  ELSE IF \/ Contains(s, RefreshCodeNeedle)
                          \/ Contains(s, NotLoggedInNeedle)
                          \/ Contains(s, Http403Needle)
                  THEN "CredentialExpired"
                  ELSE "OtherError"
       /\ (clsOut.fn = "keyword") =>
            clsOut.after = CASE class = "CredentialExpired" /\ autoCookie -> "refresh"
                             [] class = "TargetNotOwned" -> "fallback"
                             [] OTHER -> "fail"

\* The first sub-error says the user is not logged in and the second holds
\* the not-owned sentinel: the error is CredentialExpired.
C27_Witness ==
  /\ clsOut.fn = "keyword"
  /\ NestedErrorEnvelope(clsResp)
  /\ clsResp.body.errors = <<ErrLogin, ErrNotOwned>>
  /\ clsOut.err = <<"cm ", "popularities", " error (", "UNAUTHORIZED", "): ",
                    "User is not logged in">>
  /\ Classify(clsOut.err) = "CredentialExpired"

(***************************************************************************)
(* C28: the context is cancelled while the refresher waits for the login.  *)
(***************************************************************************)
\* The refresher waits at the prompt and its context is cancelled.
CancelledWhileWaiting == refresher.pc = "prompt" /\ CtxDone

\* Without a cancellation the steps compute what the one-step refresher of
\* the command model computes.
RefStepsAgree ==
  (refresher.pc = "returned" /\ ~CtxDone) =>
    LET r == refreshCMCookieInteractively(refresher.run, refresher.file0)
    IN r.cookie = refresher.cookie /\ r.err = refresher.err /\ r.file = cookieFile

\* C28 (as stated): when the context is cancelled while the refresher waits
\* for the login, the next step aborts the wait: the refresher returns an
\* error, no line has been read from the terminal, and the working
\* credential, the working target and the credential file are as before.
C28_CancelledWaitAborts ==
  [][CancelledWhileWaiting =>
       /\ refresher'.pc = "returned"
       /\ refresher'.err # NoErr
       /\ refresher'.entered = refresher.entered
       /\ UNCHANGED <<cookie, adamID, cookieFile>>]_vars

\* What the code does: a refresher cancelled at the prompt leaves the prompt
\* only with a line read from the terminal; it then returns an error and the
\* target and the file are as before.
C28_CancelledWaitNeedsInput ==
  /\ [][CancelledWhileWaiting => refresher'.pc = "extract" /\ refresher'.entered = 1]_vars
  /\ []((refresher.pc = "returned" /\ refresher.cancelledAt = "prompt") =>
          /\ refresher.entered = 1
          /\ refresher.err = CancelledErrorText("run-code")
          /\ adamID = 999 /\ cookieFile = refresher.file0)

\* The cancelled refresher has returned after the line was read.
C28_CancelledWaitReturned ==
  /\ refresher.pc = "returned" /\ refresher.cancelledAt = "prompt"
  /\ refresher.entered = 1
  /\ pc = "done" /\ result = CancelledErrorText("run-code")

(***************************************************************************)
(* C29: reads and writes of the credential file.                           *)
(***************************************************************************)
\* This step is a run of the refresher.
RefresherRan == refreshes' # refreshes

\* The step reads the file: only getCookieFlag does, before any refresh.
C29_ReadOnlyAtLoad ==
  (calls'.fileReads # calls.fileReads) =>
    /\ pc = "getCookie"
    /\ calls.fileReads = 0 /\ calls'.fileReads = 1
    /\ TotalRefreshes = 0

\* The step changes the file: it is a refresher run that returned a
\* credential, trimmed and not empty, and the file holds it on one line.
C29_WrittenByRefreshOnly ==
  (cookieFile' # cookieFile \/ calls'.fileWrites # calls.fileWrites) =>
    /\ RefresherRan
    /\ last'.op = "refresh" /\ last'.err = NoErr
    /\ \E c \in {cookie', discCookie'} :
         /\ c # <<>> /\ c = TrimSpace(c)
         /\ cookieFile' = FileWith(c \o <<NL>>)

\* A refresher run that failed left the file as it was.
C29_FailedRefreshWritesNothing ==
  (RefresherRan /\ last'.err # NoErr) =>
    /\ cookieFile' = cookieFile
    /\ calls'.fileWrites = calls.fileWrites

\* C29: within one command the credential file is read at most once, by the
\* initial credential load and never after a refresh; it is written only by
\* a refresh that obtained a non-empty credential, and a refresh that fails
\* writes nothing.
C29_CredentialFileAccess ==
  /\ [](calls.fileReads <= 1)
  /\ [][C29_ReadOnlyAtLoad]_vars
  /\ [][C29_WrittenByRefreshOnly]_vars
  /\ [][C29_FailedRefreshWritesNothing]_vars

\* The credential was read from the file, expired, and the refresh of the
\* loop wrote the new one; the command ended well without another read.
C29_Witness ==
  /\ pc = "done" /\ result = NoErr
  /\ src.cookie = "file"
  /\ calls.fileReads = 1 /\ calls.fileWrites = 1
  /\ refreshes.loop = 1
  /\ cookieFile = FileWith(FreshCookie(1) \o <<NL>>)

(***************************************************************************)
(* C30: termination and the number of calls.                               *)
(***************************************************************************)
\* The steps of RunE that are neither an upstream call nor a refresher run
\* (getCookieFlag, getExtraHeaders, the resolver, printOutput), counted from
\* the position reached.
StepsOutsideCalls ==
  CASE pc = "getCookie" -> 0
    [] pc \in {"loadRefresh", "getHeaders"} -> 1
    [] pc = "resolve" -> 2
    [] pc = "done" -> 4
    [] OTHER -> 3

\* Every step of the command is one more call, refresher run or step
\* outside them.
StepsTaken == calls.data + calls.campaign + TotalRefreshes + StepsOutsideCalls

\* The command stands where one of its steps starts: each step of Next is
\* guarded by its position only, the upstream and the refresher answer.
Running ==
  pc \in {"getCookie", "loadRefresh", "getHeaders", "resolve", "discover", "discRefresh",
          "discRetry", "call", "loopRefresh", "callAfterRefresh", "callAfterFallback",
          "print"}

CallBounds ==
  /\ calls.data <= 2 * nCountries + 1
  /\ calls.campaign <= 4
  /\ TotalRefreshes <= nCountries + 3

\* C30: every execution over N countries ends, every step it takes being a
\* step forward (StepsTaken grows and is bounded, and a command that has not
\* returned stands at one of its steps), after at most 2N + 1 data calls, 4
\* campaign-list calls and N + 3 refresher runs.
C30_TerminatesWithinBounds ==
  /\ [](CallBounds)
  /\ [](StepsTaken <= (2 * nCountries + 1) + 4 + (nCountries + 3) + 4)
  /\ [](pc = "done" \/ Running)
  /\ [][StepsTaken' > StepsTaken]_vars

\* The three bounds met at once in a command that ended well.
C30_Witness ==
  /\ pc = "done" /\ result = NoErr
  /\ nCountries >= 2
  /\ calls.data = 2 * nCountries + 1
  /\ calls.campaign = 4
  /\ TotalRefreshes = nCountries + 3

(***************************************************************************)
(* C31: the target of every data call is positive.                         *)
(***************************************************************************)
\* The positions of the country loop, where a data call is made or has
\* been made.
InCountryLoop ==
  \/ pc \in {"call", "loopRefresh", "callAfterRefresh", "callAfterFallback", "print"}
  \/ pc \in {"discover", "discRefresh", "discRetry"} /\ discRet = "fallback"

\* C31: every popularity or recommendation call carries a target id > 0,
\* the working target is > 0 all through the country loop, and no step (the
\* resolver, the discovery, the fallback's switch) sets it to a value <= 0.
C31_TargetPositiveAtCalls ==
  /\ []((last.op = "dataCall") => (last.req.adamID > 0 /\ last.req.adamID = adamID))
  /\ [](InCountryLoop => adamID > 0)
  /\ [][adamID' # adamID => adamID' > 0]_vars

\* A call was made with the target of the resolver, rejected as not owned,
\* and the re-call carried the target the fallback switched to.
C31_Witness ==
  /\ last.op = "dataCall" /\ last.site = "afterFallback"
  /\ hist.switchedFrom > 0 /\ hist.switchedTo > 0
  /\ hist.switchedFrom # hist.switchedTo
  /\ last.req.adamID = hist.switchedTo

(***************************************************************************)
(* C32: the credential of every upstream call is not empty.                *)
(***************************************************************************)
\* C32: every data call and every campaign-list call carried a credential
\* that is not empty, and wherever a call is about to be made the credential
\* it will carry is not empty (the working credential in the country loop,
\* the local one inside discoverOwnedAdamIDWithRefresh).
C32_CredentialNonEmptyAtCalls ==
  /\ (last.op \in {"dataCall", "campaignCall"}) => last.req.cookie # <<>>
  /\ (pc \in {"call", "callAfterRefresh", "callAfterFallback"}) => cookie # <<>>
  /\ (pc \in {"discover", "discRetry"}) => discCookie # <<>>

\* The credential came from the refresher at load, expired in the discovery
\* of the resolver, and the repeated campaign call carried the second
\* refreshed credential.
C32_Witness ==
  /\ last.op = "campaignCall" /\ last.site = "afterRefresh"
  /\ refreshes.load = 1 /\ refreshes.resolve = 1
  /\ last.req.cookie = FreshCookie(2)

(***************************************************************************)
(* C33: rows are written only when every country succeeded.                *)
(***************************************************************************)
\* The call of some country ended in failure: a data call, a refresher run
\* of the loop or the fallback discovery failed.
SomeCountryFailed == hist.failedCountry # 0

\* C33: rows are written only by a command in which every country
\* succeeded, and a command in which the call of a country failed returns
\* its error and writes nothing, the rows of the countries before it
\* included.
C33_RowsOnlyWhenAllSucceeded ==
  /\ (output # <<>>) =>
       /\ pc = "done" /\ result = NoErr
       /\ ~SomeCountryFailed
       /\ ci = nCountries + 1
       /\ output = <<out>>
  /\ SomeCountryFailed => (pc = "done" /\ result # NoErr /\ output = <<>>)
  /\ (pc = "done" /\ result # NoErr) => output = <<>>

\* The first country gave rows, the second failed: nothing was written.
C33_Witness ==
  /\ pc = "done" /\ result # NoErr
  /\ hist.failedCountry = 2
  /\ out # <<>>
  /\ output = <<>>

====
